---- MODULE Spec2Model ----
(***************************************************************************)
(* Model of scripts/data_generation/generate_data.py: the four generators  *)
(* (customers, products, transactions, transaction items) and the          *)
(* referential-integrity validator, run in the order main() and the tests  *)
(* call them.                                                              *)
(*                                                                         *)
(* Money is kept in cents (an integer n stands for n/100).  A DataFrame is *)
(* a record [columns, rows]; an identifier is the string the f-string      *)
(* prints, kept as the sequence of its characters.  The two seeded random  *)
(* sources (Faker's and the random module's) are streams whose position is *)
(* part of the state.  Every call of a source advances its stream by one.   *)
(* A row carries the columns the programs compute with; its columns that   *)
(* are only drawn and passed on (names, dates, addresses) are carried as   *)
(* one field, `others`: the position of Faker's stream they were drawn at. *)
(*                                                                         *)
(* Further down: the quality checker (scripts/quality_checks), and the     *)
(* programs that load the store (scripts/ingestion, scripts/transformation *)
(* and scripts/orchestration), each with a specification of its own.       *)
(***************************************************************************)
EXTENDS Integers, Sequences, FiniteSets, Bags, TLC

VARIABLES
    pc,                 \* position of the run: the call made last
    err,                \* the exception that call raised (the run ends there), or "none"
    fake,               \* position of Faker's random stream
    rnd,                \* position of the random module's stream
    halfUp,             \* the decimal halves round(x, 2) has met so far, each with the
                        \* side binary floating point resolved it to
    num_customers,      \* argument of generate_customers
    num_products,       \* argument of generate_products
    num_transactions,   \* argument of generate_transactions
    candidates,         \* the list `customers` built by generate_customers before the de-duplication
    customers_df,
    products_df,
    transactions_df,
    items_df,
    validation_result,
    tampered,           \* position of the item a caller changed after the generation, or 0
    probe,              \* the arguments and the result of one computation, for the
                        \* specifications that apply a single function
    store,              \* the files of data/raw and the relational store: what is
                        \* committed and what the open connection sees
    conn,               \* self.conn and self.cursor of the running object
    stages,             \* the stages (phases) the current run has called, with their results
    returned,           \* what the entry point of the current run returned, or "none"
    runs,               \* number of runs that have returned
    first_run,          \* the store as the first run left it
    ingestion_results,  \* DataIngestion.ingestion_results
    quality_report,     \* DataQualityChecker.quality_report
    report_file         \* the reports written to quality_report.json: none or one

vars == <<pc, err, fake, rnd, halfUp, num_customers, num_products, num_transactions,
          candidates, customers_df, products_df, transactions_df, items_df,
          validation_result, tampered, probe, store, conn, stages, returned, runs,
          first_run, ingestion_results, quality_report, report_file>>

(***************************************************************************)
(* The generation script on one side, the programs that work on the store  *)
(* (ingestion, ETL pipeline, orchestrator, quality checker) on the other:  *)
(* a specification of one side leaves the variables of the other idle.     *)
(***************************************************************************)
frameVars == <<num_customers, num_products, num_transactions, candidates, customers_df,
               products_df, transactions_df, items_df, validation_result, tampered>>

generatorVars == <<fake, rnd, frameVars>>

pipelineVars == <<store, conn, stages, returned, runs, first_run, ingestion_results,
                  quality_report, report_file>>

\* the four CSV files of data/raw, in the order they are written and loaded
CSV_FILES == <<"customers", "products", "transactions", "transaction_items">>

FileNames == {CSV_FILES[k] : k \in 1..Len(CSV_FILES)}

\* data/raw with nothing in it
NoFiles == [f \in FileNames |-> [exists |-> FALSE, rows |-> <<>>]]

\* no generation_metadata.json
NoMetadata == <<>>

PipelineIdle ==
    /\ store = [files |-> NoFiles, metadata |-> NoMetadata]
    /\ conn = "none"
    /\ stages = <<>>
    /\ returned = "none"
    /\ runs = 0
    /\ first_run = <<>>
    /\ ingestion_results = <<>>
    /\ quality_report = <<>>
    /\ report_file = <<>>

(***************************************************************************)
(* Bounds of the model.                                                    *)
(***************************************************************************)
MaxCustomers == 3
MaxProducts == 13
MaxTransactions == 2
NegCounts == 1
NumEmails == 3
MaxSeed == 31
UGrid == 64
MaxIndex == 30
MaxRows == 1
MaxTotal == 3

CustomerCounts == (0 - NegCounts)..MaxCustomers
ProductCounts == (0 - NegCounts)..MaxProducts
TransactionCounts == (0 - NegCounts)..MaxTransactions
Seeds == 0..MaxSeed

(***************************************************************************)
(* The seeded random sources.  random() is a deterministic stream; a draw  *)
(* reads the current position and the stream moves on.                     *)
(***************************************************************************)
NextRand(r) == (r * 17) % 8191

\* NextRand applied k times to 1: 17^k modulo 8191, by repeated squaring
RECURSIVE NextRandTimes(_)
NextRandTimes(k) ==
    IF k <= 0 THEN 1
    ELSE LET h == NextRandTimes(k \div 2)
         IN  (h * h * (IF k % 2 = 1 THEN 17 ELSE 1)) % 8191

\* the position after k draws
Skip(r, k) == IF k <= 0 THEN r ELSE (r * NextRandTimes(k)) % 8191

\* random.seed(a), Faker.seed(a): the position the seed a puts a stream at
SeedState(a) == Skip(a + 1, 5)

\* random.choice(seq): one of the elements of a non-empty sequence
Choice(seq, r) == seq[(r % Len(seq)) + 1]

\* random.randint(a, b): an integer of a..b, both ends included
RandInt(a, b, r) == a + (r % (b - a + 1))

\* random(): a point of the unit interval, in steps of 1/UGrid
Random01(r) == r % (UGrid + 1)

\* fake.email()
FakeEmail(r) == (r % NumEmails) + 1

(***************************************************************************)
(* round(x, 2) of the rational num/den (den > 0, num of either sign), in   *)
(* cents when num/den is in cents.  The float the code rounds is the       *)
(* result of binary arithmetic on its operands and lies just below, just   *)
(* above or on the decimal half, so round() goes to either neighbour: `up` *)
(* says which.  The side is a function of the expression and its operands: *)
(* one call of a generator resolves some halves upwards and others         *)
(* downwards, and the same expression on the same operands always resolves *)
(* the same way.  `halves` is that function on the operands met so far, a  *)
(* key being the name of the rounded field and its operands.               *)
(***************************************************************************)
NoHalves == [k \in {} |-> FALSE]

\* num/den lies halfway between two neighbours
IsHalf(num, den) == 2 * (num % den) = den

\* the side the half with this key was resolved to
HalfUp(halves, key) == key \in DOMAIN halves /\ halves[key]

\* halves, and a side for each of the keys it has not met
Resolved(halves, keys) ==
    {[k \in DOMAIN halves \cup keys |-> IF k \in DOMAIN halves THEN halves[k] ELSE e[k]] :
        e \in [keys \ DOMAIN halves -> BOOLEAN]}

RoundDiv(num, den, up) ==
    LET q == num \div den
        r == num % den
    IN  IF 2 * r < den THEN q
        ELSE IF 2 * r > den THEN q + 1
        ELSE IF up THEN q + 1 ELSE q

\* round(x * num / den) for x >= 0 without forming x * num
RoundMulDiv(x, num, den, up) ==
    (x \div den) * num + RoundDiv((x % den) * num, den, up)

(***************************************************************************)
(* Identifiers: f"CUST{i+1:04d}" and the like.  The format :0wd writes the *)
(* decimal digits of the number and pads them with zeros on the left up to *)
(* w characters; w is a minimum, a longer number is written in full.       *)
(***************************************************************************)
DigitChars == <<"0", "1", "2", "3", "4", "5", "6", "7", "8", "9">>

\* str(n) for n >= 0, one character per element
RECURSIVE Digits(_)
Digits(n) ==
    IF n < 10 THEN <<DigitChars[n + 1]>>
    ELSE Append(Digits(n \div 10), DigitChars[(n % 10) + 1])

RECURSIVE ZeroPad(_, _)
ZeroPad(digits, width) ==
    IF Len(digits) >= width THEN digits ELSE ZeroPad(<<"0">> \o digits, width)

\* f"{prefix}{n:0{width}d}"
FormatId(prefix, width, n) == prefix \o ZeroPad(Digits(n), width)

\* f"CUST{i+1:04d}"
CustomerId(i) == FormatId(<<"C", "U", "S", "T">>, 4, i + 1)

\* f"PROD{product_idx+1:04d}"
ProductId(product_idx) == FormatId(<<"P", "R", "O", "D">>, 4, product_idx + 1)

\* f"TXN{i+1:05d}"
TransactionId(i) == FormatId(<<"T", "X", "N">>, 5, i + 1)

\* f"ITEM{item_id:05d}"
ItemId(item_id) == FormatId(<<"I", "T", "E", "M">>, 5, item_id)

(***************************************************************************)
(* pd.DataFrame(list of dicts): an empty list gives a frame with no        *)
(* columns at all, a non-empty one the keys of the dicts.                  *)
(***************************************************************************)
DataFrame(rows, cols) == [columns |-> IF rows = <<>> THEN {} ELSE cols, rows |-> rows]

NoFrame == [columns |-> {}, rows |-> <<>>]

CustomerColumns == {"customer_id", "first_name", "last_name", "email", "phone",
                    "registration_date", "city", "state", "country", "age_group"}
ProductColumns == {"product_id", "product_name", "category", "sub_category", "price",
                   "cost", "brand", "stock_quantity", "supplier_id"}
TransactionColumns == {"transaction_id", "customer_id", "transaction_date",
                       "transaction_time", "payment_method", "shipping_address",
                       "total_amount"}
ItemColumns == {"item_id", "transaction_id", "product_id", "quantity", "unit_price",
                "discount_percentage", "line_total"}

\* df[column].tolist(), defined when the frame has the column
Column(df, f) == [i \in 1..Len(df.rows) |-> df.rows[i][f]]

ColumnSet(df, f) == {df.rows[i][f] : i \in 1..Len(df.rows)}

(***************************************************************************)
(* generate_customers                                                      *)
(***************************************************************************)
AGE_GROUPS == <<"18-25", "25-35", "35-50", "50+">>

\* the loop body calls fake seven times (first_name, last_name, email, phone_number,
\* date_between, city, state), the email is the third call, and random.choice once;
\* f and r are the positions of the two streams
RECURSIVE CustomerCandidates(_, _, _, _)
CustomerCandidates(i, n, f, r) ==
    IF i >= n THEN <<>>
    ELSE <<[customer_id |-> CustomerId(i),
            email |-> FakeEmail(Skip(f, 2)),
            country |-> "India",
            age_group |-> Choice(AGE_GROUPS, r),
            others |-> f]>>
         \o CustomerCandidates(i + 1, n, Skip(f, 7), NextRand(r))

\* the rows a keep='last' de-duplication would keep
KeepLastEmail(rows) ==
    LET keep(i) == \A j \in (i + 1)..Len(rows) : rows[j].email # rows[i].email
        F[i \in 0..Len(rows)] ==
            IF i = 0 THEN <<>>
            ELSE IF keep(i) THEN Append(F[i - 1], rows[i]) ELSE F[i - 1]
    IN  F[Len(rows)]

\* no de-duplication: every row is kept
KeepAllRows(rows) == rows

\* the rows drop_duplicates(subset=['email'], keep='first') keeps
KeepFirstEmail(rows) ==
    LET keep(i) == \A j \in 1..(i - 1) : rows[j].email # rows[i].email
        F[i \in 0..Len(rows)] ==
            IF i = 0 THEN <<>>
            ELSE IF keep(i) THEN Append(F[i - 1], rows[i]) ELSE F[i - 1]
    IN  F[Len(rows)]

\* df.drop_duplicates(subset=['email'], keep='first'): an empty frame is returned as it is
DropDuplicatesEmail(df) ==
    IF df.rows = <<>> THEN df
    ELSE [columns |-> df.columns, rows |-> KeepFirstEmail(df.rows)]

Max0(n) == IF n < 0 THEN 0 ELSE n

GenerateCustomers ==
    /\ pc = "start"
    /\ err = "none"
    /\ \E n \in CustomerCounts :
         LET cands == CustomerCandidates(0, n, fake, rnd)
         IN  /\ num_customers' = n
             /\ candidates' = cands
             /\ customers_df' = DropDuplicatesEmail(DataFrame(cands, CustomerColumns))
             /\ fake' = Skip(fake, 7 * Max0(n))
             \* random.choice for the age_group
             /\ rnd' = Skip(rnd, Max0(n))
    /\ pc' = "customers"
    /\ UNCHANGED <<pipelineVars, err, halfUp, num_products, num_transactions, products_df,
                   transactions_df, items_df, validation_result, probe, tampered>>

(***************************************************************************)
(* generate_products                                                       *)
(***************************************************************************)
\* CATEGORIES, in the order the dict is walked; price_range in currency units
CATEGORIES == <<
    [category |-> "Electronics", subcats |-> <<"Phones", "Laptops", "Tablets", "Accessories">>,
     lo |-> 500, hi |-> 50000],
    [category |-> "Clothing", subcats |-> <<"Men", "Women", "Kids">>,
     lo |-> 200, hi |-> 5000],
    [category |-> "Home & Kitchen", subcats |-> <<"Appliances", "Cookware", "Bedding">>,
     lo |-> 500, hi |-> 15000],
    [category |-> "Books", subcats |-> <<"Fiction", "Non-Fiction", "Academic">>,
     lo |-> 100, hi |-> 2000],
    [category |-> "Sports", subcats |-> <<"Equipment", "Clothing", "Accessories">>,
     lo |-> 500, hi |-> 10000],
    [category |-> "Beauty", subcats |-> <<"Skincare", "Makeup", "Haircare">>,
     lo |-> 200, hi |-> 5000] >>

\* the division rounded up, so that the remainder pads the first categories
ItemsPerCategoryCeil(n) == (n + Len(CATEGORIES) - 1) \div Len(CATEGORIES)

\* num_products // len(CATEGORIES): Python's floor division
ItemsPerCategory(n) == n \div Len(CATEGORIES)

\* the operands of the two roundings of the loop body
PriceKey(cat, u) == <<"price", cat.lo, cat.hi, u>>
CostKey(price, u) == <<"cost", price, u, 0>>

\* round(random.uniform(lo, hi), 2), in cents; uniform(a, b) is a + (b - a) * random()
ProductPrice(cat, u, halves) ==
    RoundDiv(100 * (cat.lo * UGrid + (cat.hi - cat.lo) * u), UGrid,
             HalfUp(halves, PriceKey(cat, u)))

\* a margin factor drawn from [0.4, 1.0] instead of [0.4, 0.7]
ProductCostWide(price, u, halves) ==
    RoundMulDiv(price, 4 * UGrid + 6 * u, 10 * UGrid, HalfUp(halves, CostKey(price, u)))

\* round(price * random.uniform(0.4, 0.7), 2), in cents
ProductCost(price, u, halves) ==
    RoundMulDiv(price, 4 * UGrid + 3 * u, 10 * UGrid, HalfUp(halves, CostKey(price, u)))

\* the halves the two roundings meet on the draws u (price) and w (margin)
DrawHalves(cat, u, w, halves) ==
    LET price == ProductPrice(cat, u, halves)
    IN  (IF IsHalf(100 * (cat.lo * UGrid + (cat.hi - cat.lo) * u), UGrid)
         THEN {PriceKey(cat, u)} ELSE {})
        \cup (IF IsHalf((price % (10 * UGrid)) * (4 * UGrid + 3 * w), 10 * UGrid)
              THEN {CostKey(price, w)} ELSE {})

\* f"SUP{random.randint(1, 50):03d}"
SupplierId(r) == FormatId(<<"S", "U", "P">>, 3, RandInt(1, 50, r))

\* one pass of the inner loop body: the draws of random are sub-category, price,
\* margin, stock_quantity and supplier_id; fake.word() is called for the
\* product_name and for the brand
ProductRow(c, idx, r, f, halves) ==
    LET cat == CATEGORIES[c]
        price == ProductPrice(cat, Random01(NextRand(r)), halves)
    IN  [product_id |-> ProductId(idx),
         category |-> cat.category,
         sub_category |-> Choice(cat.subcats, r),
         price |-> price,
         cost |-> ProductCost(price, Random01(Skip(r, 2)), halves),
         stock_quantity |-> RandInt(10, 1000, Skip(r, 3)),
         supplier_id |-> SupplierId(Skip(r, 4)),
         others |-> f]

\* the two nested loops; the inner one ends after items_per_category passes or at the break
RECURSIVE ProductRows(_, _, _, _, _, _, _)
ProductRows(c, i, idx, n, r, f, halves) ==
    IF c > Len(CATEGORIES) THEN <<>>
    ELSE IF i >= ItemsPerCategory(n) \/ idx >= n
         THEN ProductRows(c + 1, 0, idx, n, r, f, halves)
         ELSE <<ProductRow(c, idx, r, f, halves)>>
              \o ProductRows(c, i + 1, idx + 1, n, Skip(r, 5), Skip(f, 2), halves)

\* the halves the roundings of the two loops meet
RECURSIVE ProductHalves(_, _, _, _, _, _)
ProductHalves(c, i, idx, n, r, halves) ==
    IF c > Len(CATEGORIES) THEN {}
    ELSE IF i >= ItemsPerCategory(n) \/ idx >= n
         THEN ProductHalves(c + 1, 0, idx, n, r, halves)
         ELSE DrawHalves(CATEGORIES[c], Random01(NextRand(r)), Random01(Skip(r, 2)), halves)
              \cup ProductHalves(c, i + 1, idx + 1, n, Skip(r, 5), halves)

\* the prices are rounded before the costs that are computed from them
PriceHalves(keys) == {k \in keys : k[1] = "price"}

GenerateProducts ==
    /\ pc = "customers"
    /\ err = "none"
    /\ \E n \in ProductCounts :
         \E priced \in Resolved(halfUp, PriceHalves(ProductHalves(1, 0, 0, n, rnd, halfUp))) :
             \E halves \in Resolved(priced, ProductHalves(1, 0, 0, n, rnd, priced)) :
                 LET rows == ProductRows(1, 0, 0, n, rnd, fake, halves)
                 IN  /\ num_products' = n
                     /\ products_df' = DataFrame(rows, ProductColumns)
                     /\ rnd' = Skip(rnd, 5 * Len(rows))
                     /\ fake' = Skip(fake, 2 * Len(rows))
                     /\ halfUp' = halves
    /\ pc' = "products"
    /\ UNCHANGED <<pipelineVars, err, num_customers, num_transactions, candidates,
                   customers_df, transactions_df, items_df, validation_result, probe,
                   tampered>>

(***************************************************************************)
(* generate_transactions                                                   *)
(***************************************************************************)
\* a customer numbered by position instead of taken from the list of ids
PositionCustomer(customer_ids, r) == CustomerId(RandInt(1, Len(customer_ids), r) - 1)

\* random.choice(customer_ids)
TransactionCustomer(customer_ids, r) == Choice(customer_ids, r)

PAYMENT_METHODS == <<"Credit Card", "Debit Card", "UPI", "Cash on Delivery", "Net Banking">>

\* the loop body draws the customer and the payment method from random and calls
\* fake four times (date_between, time, street_address, city)
RECURSIVE TransactionRows(_, _, _, _, _)
TransactionRows(i, n, customer_ids, r, f) ==
    IF i >= n THEN <<>>
    ELSE <<[transaction_id |-> TransactionId(i),
            customer_id |-> TransactionCustomer(customer_ids, r),
            payment_method |-> Choice(PAYMENT_METHODS, NextRand(r)),
            total_amount |-> 0,
            others |-> f]>>
         \o TransactionRows(i + 1, n, customer_ids, Skip(r, 2), Skip(f, 4))

\* the exception generate_transactions ends with, or "none"
TransactionsError(n, cdf) ==
    IF "customer_id" \notin cdf.columns THEN "KeyError"
    ELSE IF n > 0 /\ cdf.rows = <<>> THEN "IndexError"
    ELSE "none"

GenerateTransactions ==
    /\ pc = "products"
    /\ err = "none"
    /\ \E n \in TransactionCounts :
         /\ num_transactions' = n
         /\ LET e == TransactionsError(n, customers_df)
            IN  IF e # "none"
                THEN /\ err' = e
                     /\ UNCHANGED <<fake, rnd, transactions_df>>
                ELSE /\ transactions_df' =
                          DataFrame(TransactionRows(0, n, Column(customers_df, "customer_id"),
                                                    rnd, fake),
                                    TransactionColumns)
                     /\ rnd' = Skip(rnd, 2 * Max0(n))
                     /\ fake' = Skip(fake, 4 * Max0(n))
                     /\ UNCHANGED err
    /\ pc' = "transactions"
    /\ UNCHANGED <<pipelineVars, halfUp, num_customers, num_products, candidates, customers_df,
                   products_df, items_df, validation_result, probe, tampered>>

(***************************************************************************)
(* generate_transaction_items                                              *)
(***************************************************************************)
DISCOUNTS == <<0, 5, 10, 15, 20>>

\* product_prices[product_id] of dict(zip(product_id, price)): the last row with the id
PriceOf(pdf, pid) ==
    LET at == {i \in 1..Len(pdf.rows) : pdf.rows[i].product_id = pid}
        last == CHOOSE i \in at : \A j \in at : j <= i
    IN  pdf.rows[last].price

\* the product's cost copied as unit_price
CostOf(pdf, pid) ==
    LET at == {i \in 1..Len(pdf.rows) : pdf.rows[i].product_id = pid}
        last == CHOOSE i \in at : \A j \in at : j <= i
    IN  pdf.rows[last].cost

\* unit_price = product_prices[product_id]
UnitPrice(pdf, pid) == PriceOf(pdf, pid)

\* the operands of round(quantity * unit_price * (1 - discount_percentage / 100), 2)
LineTotalKey(quantity, unit_price, discount_percentage) ==
    <<"line_total", quantity, unit_price, discount_percentage>>

\* quantity * unit_price * (1 - discount_percentage / 100), cut to whole cents
LineTotalTruncated(quantity, unit_price, discount_percentage, halves) ==
    ((quantity * unit_price) \div 100) * (100 - discount_percentage)
        + (((quantity * unit_price) % 100) * (100 - discount_percentage)) \div 100

\* round(quantity * unit_price * (1 - discount_percentage / 100), 2), in cents
LineTotal(quantity, unit_price, discount_percentage, halves) ==
    RoundMulDiv(quantity * unit_price, 100 - discount_percentage, 100,
                HalfUp(halves, LineTotalKey(quantity, unit_price, discount_percentage)))

\* the halves the line totals of these rows meet
LineTotalHalves(rows) ==
    {LineTotalKey(rows[i].quantity, rows[i].unit_price, rows[i].discount_percentage) :
        i \in {j \in 1..Len(rows) :
                 IsHalf(((rows[j].quantity * rows[j].unit_price) % 100)
                            * (100 - rows[j].discount_percentage), 100)}}

\* an item counter that is never advanced
SameItemId(item_id) == item_id

\* item_id += 1
NextItemId(item_id) == item_id + 1

\* one pass of the inner loop body: the draws are product, quantity, discount
ItemRow(transaction_id, item_id, pdf, r, halves) ==
    LET product_id == Choice(Column(pdf, "product_id"), r)
        quantity == RandInt(1, 5, NextRand(r))
        unit_price == UnitPrice(pdf, product_id)
        discount_percentage == Choice(DISCOUNTS, Skip(r, 2))
    IN  [item_id |-> ItemId(item_id),
         transaction_id |-> transaction_id,
         product_id |-> product_id,
         quantity |-> quantity,
         unit_price |-> unit_price,
         discount_percentage |-> discount_percentage,
         line_total |-> LineTotal(quantity, unit_price, discount_percentage, halves)]

\* for _ in range(num_items): the rows of one transaction
RECURSIVE TransactionItemRows(_, _, _, _, _, _, _)
TransactionItemRows(k, num_items, transaction_id, item_id, pdf, r, halves) ==
    IF k >= num_items THEN <<>>
    ELSE <<ItemRow(transaction_id, item_id, pdf, r, halves)>>
         \o TransactionItemRows(k + 1, num_items, transaction_id, NextItemId(item_id),
                                pdf, Skip(r, 3), halves)

\* transaction_total = line_total in place of +=: the last item's line total
LastLineTotal(rows) ==
    IF rows = <<>> THEN 0 ELSE rows[Len(rows)].line_total

RECURSIVE SumLineTotals(_)
SumLineTotals(rows) ==
    IF rows = <<>> THEN 0 ELSE Head(rows).line_total + SumLineTotals(Tail(rows))

\* an item count drawn from 0..5
NumItemsFromZero(r) == RandInt(0, 5, r)

\* num_items = random.randint(1, 5)
NumItems(r) == RandInt(1, 5, r)

\* the outer loop over the transactions, from row t on; acc holds the locals
\* transaction_items, item_id, transaction_totals and the stream position
RECURSIVE ItemsLoop(_, _, _, _, _)
ItemsLoop(t, tdf, pdf, halves, acc) ==
    IF t > Len(tdf.rows) THEN acc
    ELSE LET transaction_id == tdf.rows[t].transaction_id
             num_items == NumItems(acc.rnd)
             rows == TransactionItemRows(0, num_items, transaction_id, acc.item_id, pdf,
                                         NextRand(acc.rnd), halves)
             transaction_total == SumLineTotals(rows)
         IN  ItemsLoop(t + 1, tdf, pdf, halves,
                 [transaction_items |-> acc.transaction_items \o rows,
                  item_id |-> acc.item_id + Len(rows),
                  transaction_totals |->
                      [x \in DOMAIN acc.transaction_totals \cup {transaction_id} |->
                          IF x = transaction_id THEN transaction_total
                          ELSE acc.transaction_totals[x]],
                  rnd |-> Skip(acc.rnd, 1 + 3 * Len(rows))])

ItemsLocals(tdf, pdf, r, halves) ==
    ItemsLoop(1, tdf, pdf, halves,
              [transaction_items |-> <<>>, item_id |-> 1,
               transaction_totals |-> [x \in {} |-> 0], rnd |-> r])

\* the halves the line totals of the call meet: the operands of a row do not depend
\* on how any half is resolved
ItemsHalves(tdf, pdf, r) ==
    LineTotalHalves(ItemsLocals(tdf, pdf, r, NoHalves).transaction_items)

\* transactions_df['total_amount'] = transactions_df['transaction_id'].map(transaction_totals)
\* the column is created when the frame has none, and every row gets the total of
\* its transaction_id
BackFill(tdf, transaction_totals) ==
    [columns |-> tdf.columns \cup {"total_amount"},
     rows |-> [i \in 1..Len(tdf.rows) |->
                 [c \in DOMAIN tdf.rows[i] \cup {"total_amount"} |->
                     IF c = "total_amount"
                     THEN transaction_totals[tdf.rows[i].transaction_id]
                     ELSE tdf.rows[i][c]]]]

\* the exception generate_transaction_items ends with, or "none"
\* the columns of products_df are read before the loop; in the loop the transaction_id
\* of the row is read before anything is drawn; the last statement reads the column
\* transaction_id of the frame
ItemsError(tdf, pdf) ==
    IF "product_id" \notin pdf.columns \/ "price" \notin pdf.columns THEN "KeyError"
    ELSE IF "transaction_id" \notin tdf.columns THEN "KeyError"
    ELSE IF tdf.rows # <<>> /\ pdf.rows = <<>> THEN "IndexError"
    ELSE "none"

GenerateTransactionItems ==
    /\ pc = "transactions"
    /\ err = "none"
    /\ LET e == ItemsError(transactions_df, products_df)
       IN  IF e # "none"
           THEN /\ err' = e
                \* random.choice fails on the empty list after num_items was drawn
                /\ rnd' = IF e = "IndexError" THEN NextRand(rnd) ELSE rnd
                /\ UNCHANGED <<transactions_df, items_df, halfUp>>
           ELSE \E halves \in Resolved(halfUp, ItemsHalves(transactions_df, products_df, rnd)) :
                    LET locals == ItemsLocals(transactions_df, products_df, rnd, halves)
                    IN  /\ items_df' = DataFrame(locals.transaction_items, ItemColumns)
                        /\ transactions_df' =
                               BackFill(transactions_df, locals.transaction_totals)
                        /\ rnd' = locals.rnd
                        /\ halfUp' = halves
                        /\ UNCHANGED err
    /\ pc' = "items"
    /\ UNCHANGED <<pipelineVars, fake, num_customers, num_products, num_transactions, candidates,
                   customers_df, products_df, validation_result, probe, tampered>>

(***************************************************************************)
(* validate_referential_integrity                                          *)
(***************************************************************************)
NoResult == <<>>

\* df[mask]: the positions of the rows kept are given as a set; len() counts them
RowCount(selected) == Cardinality(selected)

\* a recomputation that leaves the discount out
ExpectedLineTotalGross(row, halves) == row.quantity * row.unit_price

\* the recomputation of check 3: the expression of the generator on the operands of the
\* row, so a half the generator met is resolved here as it was there
ExpectedLineTotal(row, halves) ==
    RoundMulDiv(row.quantity * row.unit_price, 100 - row.discount_percentage, 100,
                HalfUp(halves, LineTotalKey(row.quantity, row.unit_price,
                                            row.discount_percentage)))

\* 100 - (violations / total_records * 100) without the max(0, ...)
PenaltyScoreUnclamped(violations, total_records) ==
    [num |-> 100 * (total_records - violations), den |-> total_records]

\* max(0, 100 - (violations / total_records * 100)) as the fraction num/den
PenaltyScore(violations, total_records) ==
    [num |-> IF violations >= total_records THEN 0
             ELSE 100 * (total_records - violations),
     den |-> total_records]

PerfectScore == [num |-> 100, den |-> 1]

\* the score: 100 when nothing was found, the penalty formula otherwise
QualityScore(orphan_records, constraint_violations, total_records) ==
    IF orphan_records = 0 /\ constraint_violations = 0 THEN PerfectScore
    ELSE PenaltyScore(orphan_records + constraint_violations, total_records)

\* a price test that lets 0 pass
NegativePrice(price) == price < 0

\* products_df['price'] <= 0
NonPositivePrice(price) == price <= 0

\* an item whose two references both dangle, counted as one orphan
OrphanRecordsPerRow(invalid_customers, invalid_transactions, invalid_products) ==
    invalid_customers + (IF invalid_transactions > invalid_products
                         THEN invalid_transactions ELSE invalid_products)

\* the three `+=` on validation_result['orphan_records'], one per check
OrphanRecords(invalid_customers, invalid_transactions, invalid_products) ==
    invalid_customers + invalid_transactions + invalid_products

ValidationResult(cdf, pdf, tdf, idf, halves) ==
    LET invalid_customers ==
            RowCount({i \in 1..Len(tdf.rows) :
                tdf.rows[i].customer_id \notin ColumnSet(cdf, "customer_id")})
        invalid_transactions ==
            RowCount({i \in 1..Len(idf.rows) :
                idf.rows[i].transaction_id \notin ColumnSet(tdf, "transaction_id")})
        invalid_products ==
            RowCount({i \in 1..Len(idf.rows) :
                idf.rows[i].product_id \notin ColumnSet(pdf, "product_id")})
        errors ==
            RowCount({i \in 1..Len(idf.rows) :
                ExpectedLineTotal(idf.rows[i], halves) # idf.rows[i].line_total})
        negative_prices ==
            RowCount({i \in 1..Len(pdf.rows) : NonPositivePrice(pdf.rows[i].price)})
        orphan_records ==
            OrphanRecords(invalid_customers, invalid_transactions, invalid_products)
        constraint_violations == errors + negative_prices
        total_records == Len(cdf.rows) + Len(pdf.rows) + Len(tdf.rows) + Len(idf.rows)
    IN  [orphan_records |-> orphan_records,
         constraint_violations |-> constraint_violations,
         quality_score |-> QualityScore(orphan_records, constraint_violations, total_records),
         details |->
             IF invalid_customers > 0
             THEN [k \in {"invalid_transactions"} |-> invalid_customers]
             ELSE [k \in {} |-> 0]]

\* the columns check 3 reads of every row of items_df
LineTotalColumns == {"quantity", "unit_price", "discount_percentage", "line_total"}

\* the exception validate_referential_integrity ends with, or "none": the masks of
\* checks 1, 2 and 4 read a column of a frame, the loop of check 3 reads four fields of
\* each row and reads nothing of a frame without rows
ValidationError(cdf, pdf, tdf, idf) ==
    IF \/ "customer_id" \notin tdf.columns
       \/ "customer_id" \notin cdf.columns
       \/ "transaction_id" \notin idf.columns
       \/ "transaction_id" \notin tdf.columns
       \/ "product_id" \notin idf.columns
       \/ "product_id" \notin pdf.columns
       \/ (idf.rows # <<>> /\ ~(LineTotalColumns \subseteq idf.columns))
       \/ "price" \notin pdf.columns
    THEN "KeyError"
    ELSE "none"

Validate ==
    /\ pc \in {"items", "tampered", "given"}
    /\ err = "none"
    /\ LET e == ValidationError(customers_df, products_df, transactions_df, items_df)
       IN  IF e # "none"
           THEN /\ err' = e
                /\ UNCHANGED <<validation_result, halfUp>>
           ELSE \E halves \in Resolved(halfUp, LineTotalHalves(items_df.rows)) :
                    /\ validation_result' =
                           ValidationResult(customers_df, products_df, transactions_df,
                                            items_df, halves)
                    /\ halfUp' = halves
                    /\ UNCHANGED err
    /\ pc' = "validated"
    /\ UNCHANGED <<pipelineVars, fake, rnd, num_customers, num_products, num_transactions,
                   candidates, customers_df, products_df, transactions_df, items_df, probe,
                   tampered>>

(***************************************************************************)
(* A caller changes the discount_percentage of one item between the        *)
(* generation and the validation, to another listed discount or to a       *)
(* percentage no generator draws.                                          *)
(***************************************************************************)
TamperValues == {DISCOUNTS[k] : k \in 1..Len(DISCOUNTS)} \cup {100, 999}

TamperDiscount ==
    /\ pc = "items"
    /\ err = "none"
    /\ \E i \in 1..Len(items_df.rows) :
         \E d \in TamperValues \ {items_df.rows[i].discount_percentage} :
             /\ items_df' = [items_df EXCEPT !.rows[i].discount_percentage = d]
             /\ tampered' = i
    /\ pc' = "tampered"
    /\ UNCHANGED <<pipelineVars, err, fake, rnd, halfUp, num_customers, num_products, num_transactions,
                   candidates, customers_df, products_df, transactions_df,
                   validation_result, probe>>

(***************************************************************************)
(* save_data_to_csv and save_metadata, which main() calls on the frames    *)
(* it generated and validated.                                             *)
(***************************************************************************)
\* df.to_csv(path, index=False): the file is (re)written with the rows of the frame
ToCsv(df) == [exists |-> TRUE, rows |-> df.rows]

\* the frame written to each file
FramesToSave(cdf, pdf, tdf, idf) ==
    [f \in FileNames |->
        CASE f = "customers" -> cdf
          [] f = "products" -> pdf
          [] f = "transactions" -> tdf
          [] f = "transaction_items" -> idf]

\* data/raw after the first k of the four to_csv calls
SavedFiles(files, frames, k) ==
    [f \in FileNames |->
        IF \E j \in 1..k : CSV_FILES[j] = f THEN ToCsv(frames[f]) ELSE files[f]]

\* `fail`: the to_csv call that raises (the mkdir before the first one counts as
\* the first), 0 when none does; the files written before it stay written
SaveDataToCsv ==
    /\ pc = "validated"
    /\ err = "none"
    /\ tampered = 0
    /\ \E fail \in 0..Len(CSV_FILES) :
         /\ store' = [store EXCEPT !.files =
                          SavedFiles(store.files,
                                     FramesToSave(customers_df, products_df,
                                                  transactions_df, items_df),
                                     IF fail = 0 THEN Len(CSV_FILES) ELSE fail - 1)]
         /\ err' = IF fail = 0 THEN "none" ELSE "OSError"
    /\ pc' = "saved"
    /\ UNCHANGED <<generatorVars, halfUp, probe, conn, stages, returned, runs, first_run,
                   ingestion_results, quality_report, report_file>>

\* the dict save_metadata dumps (the timestamp is left out)
Metadata(cdf, pdf, tdf, idf, result) ==
    [record_counts |->
         [customers |-> Len(cdf.rows),
          products |-> Len(pdf.rows),
          transactions |-> Len(tdf.rows),
          transaction_items |-> Len(idf.rows),
          total_records |-> Len(cdf.rows) + Len(pdf.rows) + Len(tdf.rows) + Len(idf.rows)],
     date_range |-> [start_date |-> "2024-01-01", end_date |-> "2024-12-31"],
     validation_result |-> result]

\* what main() returns: the dict of the four frames and the validation result
MainResult == "customers, products, transactions, items, validation"

\* save_metadata, after which main() returns; when the file cannot be opened the
\* exception ends main()
SaveMetadata ==
    /\ pc = "saved"
    /\ err = "none"
    /\ \E written \in BOOLEAN :
         IF written
         THEN /\ store' = [store EXCEPT !.metadata =
                              <<Metadata(customers_df, products_df, transactions_df,
                                         items_df, validation_result)>>]
              /\ returned' = MainResult
              /\ UNCHANGED err
         ELSE /\ err' = "OSError"
              /\ UNCHANGED <<store, returned>>
    /\ pc' = "returned"
    /\ UNCHANGED <<generatorVars, halfUp, probe, conn, stages, runs, first_run,
                   ingestion_results, quality_report, report_file>>

(***************************************************************************)
(* The generation run: the module is imported (both sources seeded with    *)
(* the same number), then the generators, the validator and the two save   *)
(* functions are called in the order of main().                            *)
(***************************************************************************)
NoProbe == <<>>

Init ==
    /\ pc = "start"
    /\ err = "none"
    /\ \E seed \in Seeds : fake = SeedState(seed) /\ rnd = SeedState(seed)
    /\ halfUp = NoHalves
    /\ num_customers = 0
    /\ num_products = 0
    /\ num_transactions = 0
    /\ candidates = <<>>
    /\ customers_df = NoFrame
    /\ products_df = NoFrame
    /\ transactions_df = NoFrame
    /\ items_df = NoFrame
    /\ validation_result = NoResult
    /\ tampered = 0
    /\ PipelineIdle
    /\ probe = NoProbe

Next ==
    \/ GenerateCustomers
    \/ GenerateProducts
    \/ GenerateTransactions
    \/ GenerateTransactionItems
    \/ TamperDiscount
    \/ Validate
    \/ SaveDataToCsv
    \/ SaveMetadata

Spec == Init /\ [][Next]_vars

(***************************************************************************)
(* The price and cost computation of one product (the body of the inner    *)
(* loop of generate_products) on every category and every pair of draws of *)
(* the grid.                                                               *)
(***************************************************************************)
InitDraw ==
    /\ pc = "draw"
    /\ err = "none"
    /\ fake = 1
    /\ rnd = 1
    /\ halfUp = NoHalves
    /\ num_customers = 0
    /\ num_products = 0
    /\ num_transactions = 0
    /\ candidates = <<>>
    /\ customers_df = NoFrame
    /\ products_df = NoFrame
    /\ transactions_df = NoFrame
    /\ items_df = NoFrame
    /\ validation_result = NoResult
    /\ tampered = 0
    /\ PipelineIdle
    /\ \E c \in 1..Len(CATEGORIES), u \in 0..UGrid, w \in 0..UGrid :
         probe = [category |-> c, u |-> u, w |-> w, price |-> 0, cost |-> 0]

DrawProduct ==
    /\ pc = "draw"
    /\ LET cat == CATEGORIES[probe.category]
       IN  \E priced \in Resolved(halfUp,
                                  PriceHalves(DrawHalves(cat, probe.u, probe.w, halfUp))) :
               \E halves \in Resolved(priced, DrawHalves(cat, probe.u, probe.w, priced)) :
                   LET price == ProductPrice(cat, probe.u, halves)
                   IN  /\ probe' = [probe EXCEPT !.price = price,
                                                 !.cost = ProductCost(price, probe.w, halves)]
                       /\ halfUp' = halves
    /\ pc' = "drawn"
    /\ UNCHANGED <<pipelineVars, err, fake, rnd, num_customers, num_products, num_transactions,
                   candidates, customers_df, products_df, transactions_df, items_df,
                   validation_result, tampered>>

NextDraw == DrawProduct

SpecDraw == InitDraw /\ [][NextDraw]_vars

(***************************************************************************)
(* The identifier of one entity at one 0-based sequence index: the small   *)
(* indexes, and the indexes around the last number that fits the width.    *)
(***************************************************************************)
EntityTypes == {"Customer", "Product", "Transaction", "Item"}

RECURSIVE Pow10(_)
Pow10(k) == IF k = 0 THEN 1 ELSE 10 * Pow10(k - 1)

IdIndexes == (0..MaxIndex) \cup {Pow10(w) - d : w \in {4, 5}, d \in 0..2}

\* the id of the entity at a 0-based index; the item counter starts at 1
IdentifierOf(entity, index) ==
    CASE entity = "Customer" -> CustomerId(index)
      [] entity = "Product" -> ProductId(index)
      [] entity = "Transaction" -> TransactionId(index)
      [] entity = "Item" -> ItemId(index + 1)

InitIdent ==
    /\ pc = "index"
    /\ err = "none"
    /\ fake = 1
    /\ rnd = 1
    /\ halfUp = NoHalves
    /\ num_customers = 0
    /\ num_products = 0
    /\ num_transactions = 0
    /\ candidates = <<>>
    /\ customers_df = NoFrame
    /\ products_df = NoFrame
    /\ transactions_df = NoFrame
    /\ items_df = NoFrame
    /\ validation_result = NoResult
    /\ tampered = 0
    /\ PipelineIdle
    /\ \E entity \in EntityTypes, index \in IdIndexes :
         probe = [entity |-> entity, index |-> index, id |-> <<>>]

FormatIdentifier ==
    /\ pc = "index"
    /\ probe' = [probe EXCEPT !.id = IdentifierOf(probe.entity, probe.index)]
    /\ pc' = "formatted"
    /\ UNCHANGED <<pipelineVars, err, fake, rnd, halfUp, num_customers, num_products, num_transactions,
                   candidates, customers_df, products_df, transactions_df, items_df,
                   validation_result, tampered>>

NextIdent == FormatIdentifier

SpecIdent == InitIdent /\ [][NextIdent]_vars

(***************************************************************************)
(* The validator on collections a caller hands it: up to MaxRows rows per  *)
(* collection, references that resolve or dangle, prices that are positive *)
(* or not, line totals that agree with the recomputation or not, and empty *)
(* frames with their columns or, as pd.DataFrame([]) builds them, without. *)
(***************************************************************************)
GivenFrames(rows, cols) ==
    IF rows = <<>>
    THEN {[columns |-> {}, rows |-> <<>>], [columns |-> cols, rows |-> <<>>]}
    ELSE {[columns |-> cols, rows |-> rows]}

GivenCustomers ==
    UNION {GivenFrames([i \in 1..n |-> [customer_id |-> CustomerId(i - 1), email |-> i]],
                       CustomerColumns) : n \in 0..MaxRows}

GivenPrices == {0, 100 * CATEGORIES[4].lo}

GivenProducts ==
    UNION {GivenFrames([i \in 1..Len(prices) |->
                           [product_id |-> ProductId(i - 1),
                            category |-> CATEGORIES[4].category,
                            sub_category |-> CATEGORIES[4].subcats[1],
                            price |-> prices[i],
                            cost |-> 0]],
                       ProductColumns) :
           prices \in UNION {[1..n -> GivenPrices] : n \in 0..MaxRows}}

\* a customer reference that resolves when there is a customer, and one that cannot
GivenCustomerRefs == {CustomerId(0), CustomerId(MaxRows)}

GivenTransactions ==
    UNION {GivenFrames([i \in 1..Len(refs) |->
                           [transaction_id |-> TransactionId(i - 1),
                            customer_id |-> refs[i],
                            total_amount |-> 0]],
                       TransactionColumns) :
           refs \in UNION {[1..n -> GivenCustomerRefs] : n \in 0..MaxRows}}

\* quantity, unit_price and discount_percentage of an item: 3 x 19.99 at 15 % is
\* 50.9745, 5 x 150.10 at 5 % is the decimal half 712.975
GivenOperands == {<<3, 1999, 15>>, <<5, 15010, 5>>}

\* the stored line_total is the lower neighbour of the exact value or the cent above it
GivenItemKinds ==
    [transaction_id : {TransactionId(0), TransactionId(MaxRows)},
     product_id : {ProductId(0), ProductId(MaxRows)},
     operands : GivenOperands,
     off : {0, 1}]

\* items that carry their three identifiers and none of the columns check 3 reads
IdentifiersOnly(rows) ==
    IF rows = <<>> THEN {}
    ELSE {[columns |-> ItemColumns \ LineTotalColumns,
           rows |-> [i \in 1..Len(rows) |->
                       [item_id |-> rows[i].item_id,
                        transaction_id |-> rows[i].transaction_id,
                        product_id |-> rows[i].product_id]]]}

GivenItemRows(kinds, halves) ==
    [i \in 1..Len(kinds) |->
        [item_id |-> ItemId(i),
         transaction_id |-> kinds[i].transaction_id,
         product_id |-> kinds[i].product_id,
         quantity |-> kinds[i].operands[1],
         unit_price |-> kinds[i].operands[2],
         discount_percentage |-> kinds[i].operands[3],
         line_total |-> LineTotal(kinds[i].operands[1], kinds[i].operands[2],
                                  kinds[i].operands[3], halves) + kinds[i].off]]

GivenItems(halves) ==
    UNION {GivenFrames(GivenItemRows(kinds, halves), ItemColumns)
               \cup IdentifiersOnly(GivenItemRows(kinds, halves)) :
           kinds \in UNION {[1..n -> GivenItemKinds] : n \in 0..MaxRows}}

InitValidate ==
    /\ pc = "given"
    /\ err = "none"
    /\ fake = 1
    /\ rnd = 1
    /\ halfUp = NoHalves
    /\ num_customers = 0
    /\ num_products = 0
    /\ num_transactions = 0
    /\ candidates = <<>>
    /\ customers_df \in GivenCustomers
    /\ products_df \in GivenProducts
    /\ transactions_df \in GivenTransactions
    /\ items_df \in GivenItems(halfUp)
    /\ validation_result = NoResult
    /\ tampered = 0
    /\ PipelineIdle
    /\ probe = NoProbe

NextValidate == Validate

SpecValidate == InitValidate /\ [][NextValidate]_vars

(***************************************************************************)
(* The score of two reports over the same number of records: the counts a  *)
(* validation of total_records records can find (an orphan count of at     *)
(* most two and a constraint count of at most one per record).             *)
(***************************************************************************)
ReportCounts(total_records) ==
    [orphan_records : 0..(2 * total_records), constraint_violations : 0..total_records]

InitScore ==
    /\ pc = "counted"
    /\ err = "none"
    /\ fake = 1
    /\ rnd = 1
    /\ halfUp = NoHalves
    /\ num_customers = 0
    /\ num_products = 0
    /\ num_transactions = 0
    /\ candidates = <<>>
    /\ customers_df = NoFrame
    /\ products_df = NoFrame
    /\ transactions_df = NoFrame
    /\ items_df = NoFrame
    /\ validation_result = NoResult
    /\ tampered = 0
    /\ PipelineIdle
    /\ \E total_records \in 0..MaxTotal :
         \E fewer, more \in ReportCounts(total_records) :
             probe = [total_records |-> total_records, fewer |-> fewer, more |-> more,
                      score_fewer |-> PerfectScore, score_more |-> PerfectScore]

ScoreReports ==
    /\ pc = "counted"
    /\ probe' = [probe EXCEPT
                    !.score_fewer = QualityScore(probe.fewer.orphan_records,
                                                 probe.fewer.constraint_violations,
                                                 probe.total_records),
                    !.score_more = QualityScore(probe.more.orphan_records,
                                                probe.more.constraint_violations,
                                                probe.total_records)]
    /\ pc' = "scored"
    /\ UNCHANGED <<pipelineVars, err, fake, rnd, halfUp, num_customers, num_products, num_transactions,
                   candidates, customers_df, products_df, transactions_df, items_df,
                   validation_result, tampered>>

NextScore == ScoreReports

SpecScore == InitScore /\ [][NextScore]_vars

(***************************************************************************)
(* scripts/quality_checks/validate_data.py: DataQualityChecker.  The       *)
(* checker reads the staging tables through queries; the model keeps what  *)
(* the queries answer (the counts the five checks and the score compute    *)
(* from), not the rows.  A score is the fraction num/den until round(x, 2) *)
(* turns it into hundredths.                                               *)
(***************************************************************************)
RecordSpan == 19
MaxIssues == 51
MaxNullIds == 2
MaxRuns == 2

\* no generator has been called
FramesIdle ==
    /\ num_customers = 0
    /\ num_products = 0
    /\ num_transactions = 0
    /\ candidates = <<>>
    /\ customers_df = NoFrame
    /\ products_df = NoFrame
    /\ transactions_df = NoFrame
    /\ items_df = NoFrame
    /\ validation_result = NoResult
    /\ tampered = 0

GeneratorIdle ==
    /\ fake = 1
    /\ rnd = 1
    /\ FramesIdle

\* a return that leaves the connection as it is
AfterReturn(c) == c

\* finally: the cursor and the connection are closed if they were opened
AfterFinally(c) == IF c = "open" THEN "closed" ELSE c

\* 'passed' if total == 0 else 'failed'
CheckStatus(total) == IF total = 0 THEN "passed" ELSE "failed"

CheckNullValues(answers) ==
    [status |-> CheckStatus(answers.null_violations),
     null_violations |-> answers.null_violations]

CheckDuplicates(answers) ==
    [status |-> CheckStatus(answers.duplicates_found),
     duplicates_found |-> answers.duplicates_found]

CheckDataValidity(answers) ==
    [status |-> CheckStatus(answers.validity_violations),
     violations |-> answers.validity_violations]

CheckConsistency(answers) ==
    [status |-> CheckStatus(answers.consistency_violations),
     violations |-> answers.consistency_violations]

CheckReferentialIntegrity(answers) ==
    [status |-> CheckStatus(answers.orphan_records),
     orphan_records |-> answers.orphan_records]

\* the dict run_all_checks stores under 'checks_performed'
ChecksPerformed(answers) ==
    [null_checks |-> CheckNullValues(answers),
     duplicate_checks |-> CheckDuplicates(answers),
     validity_checks |-> CheckDataValidity(answers),
     consistency_checks |-> CheckConsistency(answers),
     referential_integrity |-> CheckReferentialIntegrity(answers)]

CheckNames == {"null_checks", "duplicate_checks", "validity_checks", "consistency_checks",
               "referential_integrity"}

\* check_result[key] when the key is in the dict, nothing otherwise
Found(check_result, key) ==
    IF key \in DOMAIN check_result THEN check_result[key] ELSE 0

\* the four `if ... in check_result` of the loop, for one check
IssuesOf(check_result) ==
    Found(check_result, "violations") + Found(check_result, "null_violations")
    + Found(check_result, "duplicates_found") + Found(check_result, "orphan_records")

RECURSIVE TotalIssuesOver(_, _)
TotalIssuesOver(all_checks, names) ==
    IF names = {} THEN 0
    ELSE LET check_name == CHOOSE n \in names : TRUE
         IN  IssuesOf(all_checks[check_name])
             + TotalIssuesOver(all_checks, names \ {check_name})

TotalIssues(all_checks) == TotalIssuesOver(all_checks, DOMAIN all_checks)

TotalRecords(answers) ==
    answers.customer_count + answers.product_count + answers.transaction_count
    + answers.item_count

\* the exception calculate_quality_score ends with, or "none": total_issues /
\* total_records is evaluated only when an issue was found
ScoreError(total_issues, total_records) ==
    IF total_issues # 0 /\ total_records = 0 THEN "ZeroDivisionError" ELSE "none"

\* quality_score before the rounding, as the fraction num/den; defined when
\* ScoreError is "none"
UnroundedScore(total_issues, total_records) ==
    IF total_issues = 0 THEN [num |-> 100, den |-> 1]
    ELSE [num |-> Max0(100 * (total_records - total_issues)), den |-> total_records]

\* the if/elif chain, on the score before the rounding
Grade(quality_score) ==
    IF quality_score.num >= 95 * quality_score.den THEN "A"
    ELSE IF quality_score.num >= 85 * quality_score.den THEN "B"
    ELSE IF quality_score.num >= 75 * quality_score.den THEN "C"
    ELSE IF quality_score.num >= 60 * quality_score.den THEN "D"
    ELSE "F"

\* the operands of round(quality_score, 2)
ScoreKey(quality_score) == <<"quality_score", quality_score.num, quality_score.den, 0>>

\* round(quality_score, 2), in hundredths
RoundedScore(quality_score, halves) ==
    RoundDiv(100 * quality_score.num, quality_score.den,
             HalfUp(halves, ScoreKey(quality_score)))

\* the integer 100 of __init__, in hundredths
Hundred == 100 * 100

CalculateQualityScore(all_checks, answers, halves) ==
    LET quality_score == UnroundedScore(TotalIssues(all_checks), TotalRecords(answers))
    IN  [overall_quality_score |-> RoundedScore(quality_score, halves),
         quality_grade |-> Grade(quality_score)]

\* the exception of the call on these checks and counts, or "none"
CalculateError(all_checks, answers) ==
    ScoreError(TotalIssues(all_checks), TotalRecords(answers))

\* the half the rounding of the score meets, if the call gets there and meets one
ScoreHalves(all_checks, answers) ==
    LET quality_score == UnroundedScore(TotalIssues(all_checks), TotalRecords(answers))
    IN  IF CalculateError(all_checks, answers) = "none"
           /\ IsHalf(100 * quality_score.num, quality_score.den)
        THEN {ScoreKey(quality_score)} ELSE {}

(***************************************************************************)
(* The staging tables the checker is run on, given by what they hold:      *)
(* customer_count customers, of which null_ids have no customer_id and     *)
(* null_fields is the number of NULLs in their email, first_name and       *)
(* last_name, and at most one further finding:                             *)
(*   "duplicates_found"   two customers share a customer_id                *)
(*   "validity"           one product, its price 0                         *)
(*   "orphan_records"     one transaction of a customer that is not there  *)
(*   "consistency"        one item with a wrong line_total, its            *)
(*                        transaction and its product are not there        *)
(*   "consistency placed" the same item with its transaction (of a         *)
(*                        customer of the table) and its product           *)
(* The answers are what the queries of the checks and of the score give on *)
(* such tables.                                                            *)
(***************************************************************************)
RecordBases == {0, 1000, 20000}

RecordCounts == {base + k : base \in RecordBases, k \in 0..RecordSpan}

SecondFindings == {"none", "duplicates_found", "validity", "consistency",
                   "consistency placed", "orphan_records"}

\* the mandatory columns of staging.customers next to customer_id
OtherMandatory == {"email", "first_name", "last_name"}

\* GROUP BY customer_id HAVING COUNT(*) > 1: the NULL ids form one group, the shared
\* id another
DuplicateGroups(null_ids, second) ==
    (IF null_ids >= 2 THEN 1 ELSE 0) + (IF second = "duplicates_found" THEN 1 ELSE 0)

\* the three NOT EXISTS counts: an item without its transaction and its product is
\* counted by two of them
OrphanCount(second) ==
    CASE second = "orphan_records" -> 1
      [] second = "consistency" -> 2
      [] OTHER -> 0

StagingAnswers(customer_count, null_ids, null_fields, second) ==
    [null_violations |-> null_ids + null_fields,
     duplicates_found |-> DuplicateGroups(null_ids, second),
     validity_violations |-> IF second = "validity" THEN 1 ELSE 0,
     consistency_violations |-> IF second \in {"consistency", "consistency placed"}
                                THEN 1 ELSE 0,
     orphan_records |-> OrphanCount(second),
     customer_count |-> customer_count,
     product_count |-> IF second \in {"validity", "consistency placed"} THEN 1 ELSE 0,
     transaction_count |-> IF second \in {"orphan_records", "consistency placed"}
                           THEN 1 ELSE 0,
     item_count |-> IF second \in {"consistency", "consistency placed"} THEN 1 ELSE 0]

\* there are such tables: a customer has one customer_id and three other mandatory
\* fields, a shared id takes two customers that have one, the transaction of the
\* placed item one
TablesPossible(customer_count, null_ids, null_fields, second) ==
    /\ null_ids <= customer_count
    /\ null_fields <= Cardinality(OtherMandatory) * customer_count
    /\ second = "duplicates_found" => customer_count - null_ids >= 2
    /\ second = "consistency placed" => customer_count - null_ids >= 1

\* the tables as the four counting queries of the score find them: as the checks
\* found them, or emptied since (all_checks is an argument of the method, and
\* another session can delete between two queries)
CountedAnswers(answers, emptied) ==
    IF emptied
    THEN [answers EXCEPT !.customer_count = 0, !.product_count = 0,
                         !.transaction_count = 0, !.item_count = 0]
    ELSE answers

(***************************************************************************)
(* calculate_quality_score on its own: staging tables of up to twenty      *)
(* thousand and some customers, with up to MaxIssues NULL fields.          *)
(***************************************************************************)
InitGrade ==
    /\ pc = "checked"
    /\ err = "none"
    /\ halfUp = NoHalves
    /\ GeneratorIdle
    /\ PipelineIdle
    /\ \E customer_count \in RecordCounts, null_ids \in 0..MaxNullIds,
          null_fields \in 0..MaxIssues, second \in SecondFindings, emptied \in BOOLEAN :
         /\ TablesPossible(customer_count, null_ids, null_fields, second)
         /\ LET answers == StagingAnswers(customer_count, null_ids, null_fields, second)
            IN  probe = [answers |-> CountedAnswers(answers, emptied),
                         all_checks |-> ChecksPerformed(answers),
                         result |-> NoProbe]

CalculateScore ==
    /\ pc = "checked"
    /\ pc' = "graded"
    /\ LET e == CalculateError(probe.all_checks, probe.answers)
       IN  IF e # "none"
           THEN /\ err' = e
                /\ UNCHANGED <<probe, halfUp>>
           ELSE \E halves \in Resolved(halfUp, ScoreHalves(probe.all_checks, probe.answers)) :
                    /\ probe' = [probe EXCEPT
                                    !.result = CalculateQualityScore(probe.all_checks,
                                                                     probe.answers, halves)]
                    /\ halfUp' = halves
                    /\ UNCHANGED err
    /\ UNCHANGED <<pipelineVars, generatorVars>>

NextGrade == CalculateScore

SpecGrade == InitGrade /\ [][NextGrade]_vars

(***************************************************************************)
(* The life of a DataQualityChecker: constructed, then run_all_checks and  *)
(* save_quality_report called in any order, each any number of times (up   *)
(* to MaxRuns runs); main() calls run_all_checks once and then             *)
(* save_quality_report.  A call that lets an exception escape ends the     *)
(* caller's run.                                                           *)
(***************************************************************************)
\* the report of __init__ (the timestamp is left out)
NewQualityReport ==
    [checks_performed |-> <<>>, overall_quality_score |-> Hundred, quality_grade |-> "A"]

\* the ways run_all_checks ends:
\*   "connect raised"  psycopg2.connect raises an exception that is no psycopg2.Error
\*   "connect failed"  psycopg2.connect raises a psycopg2.Error
\*   "cursor failed"   the connection is made and self.conn.cursor() raises a
\*                     psycopg2.Error
\*   "check raised"    a query of one of the five checks raises
\*   "score raised"    a counting query of calculate_quality_score raises
\*   "completed"       no query raises
RunOutcomes == {"connect raised", "connect failed", "cursor failed", "check raised",
                "score raised", "completed"}

\* the outcomes in which connect() does not return True: the try block is not entered
NotConnected == {"connect raised", "connect failed", "cursor failed"}

\* the outcome of a run: a division by zero in calculate_quality_score is caught by
\* the except clause like a query that raises there
OutcomeOf(outcome, answers) ==
    IF outcome = "completed" /\ CalculateError(ChecksPerformed(answers), answers) # "none"
    THEN "score raised"
    ELSE outcome

\* the steps of run_all_checks that ran to their end
StepsOf(outcome) ==
    CASE outcome \in NotConnected -> <<>>
      [] outcome = "check raised" -> <<"connect">>
      [] outcome = "score raised" -> <<"connect", "checks">>
      [] outcome = "completed" -> <<"connect", "checks", "score">>

\* self.quality_report when run_all_checks returns
ReportAfter(report, outcome, answers, halves) ==
    LET all_checks == ChecksPerformed(answers)
        scored == CalculateQualityScore(all_checks, answers, halves)
    IN  CASE outcome \in NotConnected \cup {"check raised"} -> report
          [] outcome = "score raised" -> [report EXCEPT !.checks_performed = all_checks]
          [] outcome = "completed" ->
                [checks_performed |-> all_checks,
                 overall_quality_score |-> scored.overall_quality_score,
                 quality_grade |-> scored.quality_grade]

\* self.conn when run_all_checks ends: connect() assigns it when psycopg2.connect
\* returns, and only the finally clause of the try block closes it
ConnAfter(c, outcome) ==
    CASE outcome \in {"connect raised", "connect failed"} -> c
      [] outcome = "cursor failed" -> "open"
      [] OTHER -> AfterFinally("open")

InitQuality ==
    /\ pc = "constructed"
    /\ err = "none"
    /\ halfUp = NoHalves
    /\ GeneratorIdle
    /\ store = <<>>
    /\ conn = "none"
    /\ stages = <<>>
    /\ returned = "none"
    /\ runs = 0
    /\ first_run = <<>>
    /\ ingestion_results = <<>>
    /\ quality_report = NewQualityReport
    /\ report_file = <<>>
    /\ \E customer_count \in 0..MaxTotal, null_ids \in 0..MaxNullIds,
          null_fields \in 0..MaxIssues, second \in SecondFindings :
         /\ TablesPossible(customer_count, null_ids, null_fields, second)
         /\ probe = [answers |->
                         StagingAnswers(customer_count, null_ids, null_fields, second)]

RunAllChecks ==
    /\ pc \in {"constructed", "run"}
    /\ err = "none"
    /\ runs < MaxRuns
    /\ \E chosen \in RunOutcomes, emptied \in BOOLEAN :
         LET counted == CountedAnswers(probe.answers, emptied)
             outcome == OutcomeOf(chosen, counted)
         IN  /\ emptied => chosen = "completed"
             /\ stages' = StepsOf(outcome)
             /\ conn' = ConnAfter(conn, outcome)
             /\ \E halves \in Resolved(halfUp,
                                        IF outcome = "completed"
                                        THEN ScoreHalves(ChecksPerformed(probe.answers),
                                                         counted)
                                        ELSE {}) :
                   /\ quality_report' = ReportAfter(quality_report, outcome, counted, halves)
                   /\ halfUp' = halves
             /\ err' = IF outcome = "connect raised" THEN "OSError" ELSE "none"
             /\ returned' = CASE outcome = "connect raised" -> returned
                              [] outcome = "completed" -> "quality_report"
                              [] OTHER -> "None"
    /\ pc' = "run"
    /\ runs' = runs + 1
    /\ UNCHANGED <<generatorVars, probe, store, first_run, ingestion_results, report_file>>

\* open(report_file, 'w') replaces what the file held; when the directory cannot be
\* made or the file cannot be opened the except clause logs and nothing is written
SaveQualityReport ==
    /\ pc \in {"constructed", "run"}
    /\ err = "none"
    /\ \E written \in BOOLEAN :
         report_file' = IF written THEN <<quality_report>> ELSE report_file
    /\ UNCHANGED <<generatorVars, pc, err, halfUp, probe, store, conn, stages, returned,
                   runs, first_run, ingestion_results, quality_report>>

NextQuality == RunAllChecks \/ SaveQualityReport

SpecQuality == InitQuality /\ [][NextQuality]_vars

(***************************************************************************)
(* The store-side programs: scripts/ingestion/ingest_to_staging.py,        *)
(* scripts/transformation/complete_etl_pipeline.py and                     *)
(* scripts/orchestration/orchestrator.py.  The store is the four CSV files *)
(* of data/raw and the tables of the database; `db` is what is committed,  *)
(* `work` what the open connection sees (equal to db outside a             *)
(* transaction).  A table is the sequence of its rows in insertion order;  *)
(* the rows of the staging and production tables are the rows of the       *)
(* files.  warehouse_fact_sales is the bag of its rows: they are inserted  *)
(* by one INSERT ... SELECT over a join without ORDER BY, in an order the  *)
(* database chooses (by the indexes it has or builds, and by the values of *)
(* the columns in them), and no program reads that order.                  *)
(***************************************************************************)
MaxFileRows == 2


StagingTables == {"staging_customers", "staging_products", "staging_transactions",
                  "staging_transaction_items"}

ProductionTables == {"production_customers", "production_products",
                     "production_transactions", "production_transaction_items"}

WarehouseTables == {"warehouse_dim_payment_method", "warehouse_dim_date",
                    "warehouse_dim_customers", "warehouse_dim_products",
                    "warehouse_fact_sales"}

Tables == StagingTables \cup ProductionTables \cup WarehouseTables

\* the tables held as the bag of their rows
BagTables == {"warehouse_fact_sales"}

\* a table without rows
NoRows(table) == IF table \in BagTables THEN EmptyBag ELSE <<>>

\* the bag of the rows of a sequence
BagOfRows(rows) ==
    [row \in {rows[k] : k \in 1..Len(rows)} |->
        Cardinality({k \in 1..Len(rows) : rows[k] = row})]

\* the rows given in order, as the table holds them
RowsOf(table, rows) == IF table \in BagTables THEN BagOfRows(rows) ELSE rows

\* the number of rows of a table
CountRows(d, table) ==
    IF table \in BagTables THEN BagCardinality(d[table]) ELSE Len(d[table])

\* the CSV file a staging table is loaded from
FileOf(table) ==
    CASE table = "staging_customers" -> "customers"
      [] table = "staging_products" -> "products"
      [] table = "staging_transactions" -> "transactions"
      [] table = "staging_transaction_items" -> "transaction_items"

\* the staging table a production table is filled from
StagingOf(table) ==
    CASE table = "production_customers" -> "staging_customers"
      [] table = "production_products" -> "staging_products"
      [] table = "production_transactions" -> "staging_transactions"
      [] table = "production_transaction_items" -> "staging_transaction_items"

\* the names phase 5 of the orchestrator writes
ORCHESTRATOR_METHODS == <<"Credit Card", "Debit Card", "UPI", "COD", "Net Banking">>

\* the days from 2024-01-01 to 2024-12-31
DaysOf2024 == 366

\* a NULL column of a row is a field the row does not have
IsNull(row, column) == column \notin DOMAIN row

\* a.f = b.g in a join condition or a WHERE clause: never true of a NULL
SameValue(a, f, b, g) == ~IsNull(a, f) /\ ~IsNull(b, g) /\ a[f] = b[g]

\* column > 0 in a WHERE clause: not true of a NULL
Positive(row, column) == ~IsNull(row, column) /\ row[column] > 0

(***************************************************************************)
(* The files of data/raw are written by the generation: by main() of       *)
(* generate_data.py, or by phase 1 of the orchestrator, which calls the    *)
(* same generators with the counts of config/config.yaml.                  *)
(***************************************************************************)
\* the calls of main() from generate_customers to validate_referential_integrity
\* with the streams at f and r, none of which raises when the counts give every
\* frame a row; `halves` resolves the halves the calls meet
Generation(f, r, counts, halves) ==
    LET cdf == DropDuplicatesEmail(
                   DataFrame(CustomerCandidates(0, counts.num_customers, f, r),
                             CustomerColumns))
        f1 == Skip(f, 7 * Max0(counts.num_customers))
        r1 == Skip(r, Max0(counts.num_customers))
        pdf == DataFrame(ProductRows(1, 0, 0, counts.num_products, r1, f1, halves),
                         ProductColumns)
        f2 == Skip(f1, 2 * Len(pdf.rows))
        r2 == Skip(r1, 5 * Len(pdf.rows))
        tdf == DataFrame(TransactionRows(0, counts.num_transactions,
                                         Column(cdf, "customer_id"), r2, f2),
                         TransactionColumns)
        f3 == Skip(f2, 4 * Max0(counts.num_transactions))
        r3 == Skip(r2, 2 * Max0(counts.num_transactions))
        locals == ItemsLocals(tdf, pdf, r3, halves)
        idf == DataFrame(locals.transaction_items, ItemColumns)
        filled == BackFill(tdf, locals.transaction_totals)
    IN  [frames |-> FramesToSave(cdf, pdf, filled, idf),
         metadata |-> Metadata(cdf, pdf, filled, idf,
                               ValidationResult(cdf, pdf, filled, idf, halves)),
         fake |-> f3,
         rnd |-> locals.rnd]

\* the ways the halves of these calls can be resolved, given those met before: the
\* prices first, then the costs, then the line totals (which the validation meets
\* again)
GenerationHalves(f, r, counts, halves) ==
    LET r1 == Skip(r, Max0(counts.num_customers))
        n == counts.num_products
        LineHalves(h) ==
            LET g == Generation(f, r, counts, h)
            IN  LineTotalHalves(g.frames["transaction_items"].rows)
    IN  UNION {UNION {Resolved(costed, LineHalves(costed)) :
                         costed \in Resolved(priced,
                                             ProductHalves(1, 0, 0, n, r1, priced))} :
                  priced \in Resolved(halves,
                                      PriceHalves(ProductHalves(1, 0, 0, n, r1, halves)))}

\* the counts of the configuration: MaxFileRows customers and transactions and one
\* product per category (with fewer products generate_products returns an empty
\* frame and generate_transaction_items raises)
Configurations ==
    [num_customers : {MaxFileRows},
     num_products : {Len(CATEGORIES)},
     num_transactions : {MaxFileRows}]

\* data/raw as a generation left it, with the files of `missing` removed since
RawFiles(frames, missing) ==
    [f \in FileNames |-> IF f \in missing THEN NoFiles[f] ELSE ToCsv(frames[f])]

\* the schema of setup_database.py, nothing loaded
EmptyTables == [t \in Tables |-> NoRows(t)]

\* `unique`: whether the schema (sql/ddl, not part of the sources) declares the
\* business keys of the warehouse dimensions unique; `config`: the counts of
\* config/config.yaml
NewStore(config, g, missing, unique) ==
    [config |-> config, unique |-> unique, files |-> RawFiles(g.frames, missing),
     metadata |-> <<g.metadata>>, db |-> EmptyTables, work |-> EmptyTables]

(***************************************************************************)
(* Statements.  A stage is a list of steps run in order on the connection; *)
(* the first step that raises ends it.                                     *)
(***************************************************************************)
\* a clearing that clears nothing
KeepRows(rows) == rows

\* DELETE FROM / TRUNCATE TABLE / if_exists='replace': the table without its rows
ClearRows(rows) == <<>>

\* conn.commit()
Commit(s) == [s EXCEPT !.db = s.work]

\* conn.rollback(); also what closing a connection does to an open transaction
Rollback(s) == [s EXCEPT !.work = s.db]

RECURSIVE SelectDistinct(_)
\* SELECT DISTINCT over every column: the rows without those equal to an earlier
\* one in all their columns
SelectDistinct(rows) ==
    IF rows = <<>> THEN <<>>
    ELSE LET init == SelectDistinct(SubSeq(rows, 1, Len(rows) - 1))
             last == rows[Len(rows)]
         IN  IF \E k \in 1..Len(init) : init[k] = last THEN init ELSE Append(init, last)

\* the WHERE clauses of transform_to_production
KeptInProduction(table, row) ==
    CASE table = "production_customers" ->
            ~IsNull(row, "customer_id") /\ ~IsNull(row, "email")
      [] table = "production_products" ->
            ~IsNull(row, "product_id") /\ Positive(row, "price")
      [] table = "production_transactions" ->
            ~IsNull(row, "transaction_id") /\ ~IsNull(row, "customer_id")
      [] table = "production_transaction_items" ->
            ~IsNull(row, "item_id") /\ Positive(row, "quantity")

ProductionRows(table, staged) ==
    LET Kept(row) == KeptInProduction(table, row)
    IN  SelectDistinct(SelectSeq(staged, Kept))

\* INSERT OR IGNORE of the five payment methods: the names already there stay as they are
PaymentMethodRows(rows) ==
    LET Missing(name) == \A k \in 1..Len(rows) : rows[k].payment_method_name # name
        new == SelectSeq(PAYMENT_METHODS, Missing)
    IN  rows \o [k \in 1..Len(new) |->
                    [payment_method_key |-> Len(rows) + k, payment_method_name |-> new[k]]]

\* INSERT OR IGNORE of the days of 2024, keyed by the day
DateRows(rows) ==
    LET present == {rows[k] : k \in 1..Len(rows)}
        Missing(day) == day \notin present
    IN  rows \o SelectSeq([day \in 1..DaysOf2024 |-> day], Missing)

\* INSERT INTO warehouse_dim_customers ... FROM production_customers
DimCustomerRows(rows, customers) ==
    rows \o [k \in 1..Len(customers) |->
                [customer_key |-> Len(rows) + k, customer_id |-> customers[k].customer_id]]

\* INSERT INTO warehouse_dim_products ... FROM production_products
DimProductRows(rows, products) ==
    rows \o [k \in 1..Len(products) |->
                [product_key |-> Len(rows) + k, product_id |-> products[k].product_id]]

\* the positions of the rows of the five-way join: of the item, its transaction,
\* the customer, the product and the payment method
FactJoin(w) ==
    LET pti == w["production_transaction_items"]
        pt == w["production_transactions"]
        dc == w["warehouse_dim_customers"]
        dp == w["warehouse_dim_products"]
        dpm == w["warehouse_dim_payment_method"]
        Transactions(i) ==
            {t \in 1..Len(pt) : SameValue(pti[i], "transaction_id", pt[t], "transaction_id")}
        Customers(t) ==
            {c \in 1..Len(dc) : SameValue(pt[t], "customer_id", dc[c], "customer_id")}
        Products(i) ==
            {p \in 1..Len(dp) : SameValue(pti[i], "product_id", dp[p], "product_id")}
        Methods(t) ==
            {m \in 1..Len(dpm) :
                SameValue(pt[t], "payment_method", dpm[m], "payment_method_name")}
    IN  UNION {UNION {{<<i, t, c, p, m>> :
                          c \in Customers(t), p \in Products(i), m \in Methods(t)} :
                         t \in Transactions(i)} :
                  i \in 1..Len(pti)}

\* the row the SELECT gives for a tuple of the join
FactRow(w, j) ==
    [customer_key |-> w["warehouse_dim_customers"][j[3]].customer_key,
     product_key |-> w["warehouse_dim_products"][j[4]].product_key,
     payment_method_key |-> w["warehouse_dim_payment_method"][j[5]].payment_method_key,
     transaction_id |-> w["production_transaction_items"][j[1]].transaction_id,
     quantity |-> w["production_transaction_items"][j[1]].quantity]

\* INSERT INTO warehouse_fact_sales SELECT ... JOIN ...: one row for every tuple of
\* the join, added to the rows of the table
FactRows(rows, w) ==
    LET joined == FactJoin(w)
    IN  rows (+) [row \in {FactRow(w, j) : j \in joined} |->
                     Cardinality({j \in joined : FactRow(w, j) = row})]

\* some row of `rows` has its `key` among those of `present`
KeyPresent(rows, present, key) ==
    \E a \in 1..Len(rows), b \in 1..Len(present) : rows[a][key] = present[b][key]

\* two rows of `rows` have the same `key`
KeyRepeated(rows, key) ==
    \E a, b \in 1..Len(rows) : a # b /\ rows[a][key] = rows[b][key]

\* INSERT ... SELECT into a dimension whose business key is unique: the statement
\* fails on a key the dimension holds already and on a key it inserts twice
KeyViolated(rows, present, key) ==
    KeyPresent(rows, present, key) \/ KeyRepeated(rows, key)

\* the exception a step raises whatever else happens, or "none": read_csv of a file
\* that is not there, an import of names the module does not define, an insert of
\* a key that a unique constraint already holds
Raised(step, s) ==
    CASE step.op \in {"append", "replace"} ->
            IF s.files[FileOf(step.table)].exists THEN "none" ELSE "FileNotFoundError"
      [] step.op = "import" -> "ImportError"
      [] step.op = "customers" ->
            IF s.unique /\ KeyViolated(s.work["production_customers"],
                                       s.work[step.table], "customer_id")
            THEN "IntegrityError" ELSE "none"
      [] step.op = "products" ->
            IF s.unique /\ KeyViolated(s.work["production_products"],
                                       s.work[step.table], "product_id")
            THEN "IntegrityError" ELSE "none"
      [] OTHER -> "none"

\* the store after one step that did not raise
Exec(step, s) ==
    LET w == s.work
        Set(rows) == [s EXCEPT !.work[step.table] = rows]
    IN  CASE step.op = "delete" -> Set(ClearRows(w[step.table]))
          [] step.op = "append" ->
                \* read_csv, then to_sql(if_exists='append'), which commits
                Commit(Set(w[step.table] \o s.files[FileOf(step.table)].rows))
          [] step.op = "replace" ->
                \* read_csv, then to_sql(if_exists='replace'), which commits
                Commit(Set(ClearRows(w[step.table]) \o s.files[FileOf(step.table)].rows))
          [] step.op = "copy" ->
                \* read_sql of the whole source table, then to_sql(if_exists='replace')
                Commit(Set(RowsOf(step.table, ClearRows(w[step.table]) \o w[step.source])))
          [] step.op = "select" ->
                Set(w[step.table] \o ProductionRows(step.table, w[StagingOf(step.table)]))
          [] step.op = "payment methods" -> Set(PaymentMethodRows(w[step.table]))
          [] step.op = "dates" -> Set(DateRows(w[step.table]))
          [] step.op = "customers" ->
                Set(DimCustomerRows(w[step.table], w["production_customers"]))
          [] step.op = "products" ->
                Set(DimProductRows(w[step.table], w["production_products"]))
          [] step.op = "facts" -> Set(FactRows(w[step.table], w))
          [] step.op = "calendar" ->
                \* 'date_key': range(len(date_range)), with if_exists='replace'
                Commit(Set(ClearRows(w[step.table]) \o [k \in 1..DaysOf2024 |-> k - 1]))
          [] step.op = "methods" ->
                \* 'payment_method_id': range(1, 6), with if_exists='replace'
                Commit(Set(ClearRows(w[step.table])
                           \o [k \in 1..Len(ORCHESTRATOR_METHODS) |->
                                  [payment_method_id |-> k,
                                   payment_method_name |-> ORCHESTRATOR_METHODS[k]]]))
          [] step.op = "commit" -> Commit(s)

RECURSIVE RunSteps(_, _, _, _)
\* the steps from the k-th on; `fail` is the step at which the database or the file
\* system fails (0: none).  The first exception ends the list: the handler rolls back
\* (or the connection is dropped, which discards the open transaction).
RunSteps(steps, k, s, fail) ==
    IF k > Len(steps) THEN [store |-> s, ok |-> TRUE, error |-> "none"]
    ELSE IF Raised(steps[k], s) # "none"
         THEN [store |-> Rollback(s), ok |-> FALSE, error |-> Raised(steps[k], s)]
         ELSE IF k = fail
              THEN [store |-> Rollback(s), ok |-> FALSE, error |-> "OperationalError"]
              ELSE RunSteps(steps, k + 1, Exec(steps[k], s), fail)

Step(op, table) == [op |-> op, table |-> table]

(***************************************************************************)
(* CompleteETLPipeline: the three stages and run_pipeline.                 *)
(***************************************************************************)
LoadStagingSteps ==
    <<Step("delete", "staging_transaction_items"), Step("delete", "staging_transactions"),
      Step("delete", "staging_customers"), Step("delete", "staging_products"),
      Step("append", "staging_customers"), Step("append", "staging_products"),
      Step("append", "staging_transactions"), Step("append", "staging_transaction_items"),
      Step("commit", "")>>

TransformSteps ==
    <<Step("delete", "production_transaction_items"),
      Step("delete", "production_transactions"),
      Step("delete", "production_customers"), Step("delete", "production_products"),
      Step("select", "production_customers"), Step("select", "production_products"),
      Step("select", "production_transactions"),
      Step("select", "production_transaction_items"),
      Step("commit", "")>>

WarehouseSteps ==
    <<Step("payment methods", "warehouse_dim_payment_method"), Step("commit", ""),
      Step("dates", "warehouse_dim_date"), Step("commit", ""),
      Step("customers", "warehouse_dim_customers"),
      Step("products", "warehouse_dim_products"),
      Step("facts", "warehouse_fact_sales"),
      Step("commit", "")>>

STAGES == <<"load_staging", "transform_to_production", "load_warehouse">>

StageSteps(stage) ==
    CASE stage = "load_staging" -> LoadStagingSteps
      [] stage = "transform_to_production" -> TransformSteps
      [] stage = "load_warehouse" -> WarehouseSteps

\* what a run that has returned leaves for the comparison with a later run
RunRecord(s, result) == [db |-> s.db, returned |-> result]

\* run_pipeline up to the connection
RunPipeline ==
    /\ pc = "pipeline" \/ (pc = "finished" /\ runs < MaxRuns)
    /\ stages' = <<>>
    /\ \E connected \in BOOLEAN :
         IF connected
         THEN /\ pc' = "connected"
              /\ conn' = "open"
              /\ returned' = "none"
              /\ err' = "none"
              /\ UNCHANGED <<runs, first_run>>
         ELSE /\ pc' = "finished"
              /\ conn' = AfterFinally("none")
              /\ returned' = "False"
              /\ err' = "OperationalError"
              /\ runs' = runs + 1
              /\ first_run' = IF runs = 0 THEN RunRecord(store, "False") ELSE first_run
    /\ UNCHANGED <<generatorVars, halfUp, probe, store, ingestion_results, quality_report,
                   report_file>>

\* one stage called by run_pipeline: its statements, then commit or rollback
Stage(stage, before, after) ==
    /\ pc = before
    /\ \E fail \in 0..Len(StageSteps(stage)) :
         LET r == RunSteps(StageSteps(stage), 1, store, fail)
         IN  /\ store' = r.store
             /\ err' = r.error
             /\ stages' = Append(stages, [stage |-> stage, ok |-> r.ok])
             /\ pc' = IF r.ok THEN after ELSE "failed"
    /\ UNCHANGED <<generatorVars, halfUp, probe, conn, returned, runs, first_run,
                   ingestion_results, quality_report, report_file>>

LoadStaging == Stage("load_staging", "connected", "staged")

TransformToProduction == Stage("transform_to_production", "staged", "transformed")

LoadWarehouse == Stage("load_warehouse", "transformed", "loaded")

\* the return of run_pipeline and its finally clause
ClosePipeline ==
    /\ pc \in {"loaded", "failed"}
    /\ pc' = "finished"
    /\ returned' = IF pc = "loaded" THEN "True" ELSE "False"
    /\ conn' = AfterFinally(conn)
    /\ store' = Rollback(store)
    /\ runs' = runs + 1
    /\ first_run' = IF runs = 0 THEN RunRecord(store', returned') ELSE first_run
    /\ UNCHANGED <<generatorVars, err, halfUp, probe, stages, ingestion_results,
                   quality_report, report_file>>

(***************************************************************************)
(* DataIngestion.ingest_all_data.                                          *)
(***************************************************************************)
NewIngestionResults == [tables_loaded |-> <<>>, status |-> "pending"]

TruncateSteps ==
    <<Step("delete", "staging_transaction_items"), Step("delete", "staging_transactions"),
      Step("delete", "staging_customers"), Step("delete", "staging_products"),
      Step("commit", "")>>

\* the tables of csv_files, in the order of the loop
CSV_TABLES == <<"staging_customers", "staging_products", "staging_transactions",
                "staging_transaction_items">>

\* load_csv_to_staging: read_csv, copy_from, commit; the except clause rolls back
LoadCsvToStaging(table, s, fails) ==
    LET r == RunSteps(<<Step("append", table)>>, 1, s, IF fails THEN 1 ELSE 0)
    IN  [store |-> r.store,
         result |-> IF r.ok
                    THEN [status |-> "success", rows_loaded |-> Len(s.files[FileOf(table)].rows),
                          error_message |-> "none"]
                    ELSE [status |-> "failed", rows_loaded |-> 0, error_message |-> r.error]]

FileNotFound == [status |-> "failed", error_message |-> "File not found"]

RECURSIVE LoadTables(_, _, _, _, _)
\* the loop over csv_files from the k-th file on; an exception that escapes
\* load_csv_to_staging at the `escapes`-th file ends the loop
LoadTables(k, s, loaded, failing, escapes) ==
    IF k > Len(CSV_TABLES) THEN [store |-> s, tables_loaded |-> loaded, ok |-> TRUE]
    ELSE IF k = escapes THEN [store |-> Rollback(s), tables_loaded |-> loaded, ok |-> FALSE]
    ELSE LET table == CSV_TABLES[k]
         IN  IF s.files[FileOf(table)].exists
             THEN LET r == LoadCsvToStaging(table, s, table \in failing)
                  IN  LoadTables(k + 1, r.store, loaded @@ (table :> r.result), failing,
                                 escapes)
             ELSE LoadTables(k + 1, s, loaded @@ (table :> FileNotFound), failing, escapes)

\* the status ingest_all_data sets after the loop and the validation
StatusAfterLoop(tables_loaded) == "success"

IngestAllData ==
    /\ pc = "ingestion" \/ (pc = "ingested" /\ runs < MaxRuns)
    /\ pc' = "ingested"
    /\ \E connected \in BOOLEAN, truncate_fails \in 0..1 :
       \E failing \in IF connected /\ truncate_fails = 0 THEN SUBSET StagingTables ELSE {{}},
          escapes \in IF connected /\ truncate_fails = 0 THEN 0..Len(CSV_TABLES) ELSE {0} :
         LET truncated == RunSteps(TruncateSteps, 1, store, truncate_fails)
             loop == LoadTables(1, truncated.store, <<>>, failing, escapes)
         IN  IF ~connected
             THEN /\ ingestion_results' = [NewIngestionResults EXCEPT !.status = "failed"]
                  /\ stages' = <<>>
                  /\ conn' = AfterFinally("none")
                  /\ UNCHANGED store
             ELSE IF ~truncated.ok
             THEN /\ ingestion_results' = [NewIngestionResults EXCEPT !.status = "failed"]
                  /\ stages' = <<"connect">>
                  /\ conn' = AfterFinally("open")
                  /\ store' = truncated.store
             ELSE /\ ingestion_results' =
                        [tables_loaded |-> loop.tables_loaded,
                         status |-> IF loop.ok THEN StatusAfterLoop(loop.tables_loaded)
                                    ELSE "failed"]
                  /\ stages' = <<"connect", "truncate">>
                  /\ conn' = AfterFinally("open")
                  /\ store' = loop.store
    /\ returned' = "ingestion_results"
    /\ runs' = runs + 1
    /\ first_run' = IF runs = 0 THEN RunRecord(store', ingestion_results'.status)
                    ELSE first_run
    /\ UNCHANGED <<generatorVars, err, halfUp, probe, quality_report, report_file>>

(***************************************************************************)
(* PipelineOrchestrator.run: the five phases in the order of the try       *)
(* block; a phase that raises re-raises, and run returns False.            *)
(***************************************************************************)
NumPhases == 5

\* phase_1_data_generation with the streams at f and r: the configuration is read,
\* the generators are called with its counts and the four frames are written.
\* `fail` is the statement that raises: 0 none, 1 the reading of the configuration,
\* k + 1 the k-th to_csv (the mkdir counts as the first).
PhaseOne(s, f, r, halves, fail) ==
    LET g == Generation(f, r, s.config, halves)
    IN  IF fail = 1
        THEN [store |-> s, fake |-> f, rnd |-> r, ok |-> FALSE,
              error |-> "FileNotFoundError"]
        ELSE [store |-> [s EXCEPT !.files =
                            SavedFiles(s.files, g.frames,
                                       IF fail = 0 THEN Len(CSV_FILES) ELSE fail - 2)],
              fake |-> g.fake, rnd |-> g.rnd, ok |-> fail = 0,
              error |-> IF fail = 0 THEN "none" ELSE "OSError"]

\* the statements of the phases that work on the database
PhaseSteps(phase) ==
    CASE phase = 2 ->
            <<Step("replace", "staging_customers"), Step("replace", "staging_products"),
              Step("replace", "staging_transactions"),
              Step("replace", "staging_transaction_items"), Step("commit", "")>>
      [] phase = 3 -> <<Step("import", "")>>
      [] phase = 4 ->
            <<[op |-> "copy", table |-> "production_customers", source |-> "staging_customers"],
              [op |-> "copy", table |-> "production_products", source |-> "staging_products"],
              [op |-> "copy", table |-> "production_transactions",
               source |-> "staging_transactions"],
              [op |-> "copy", table |-> "production_transaction_items",
               source |-> "staging_transaction_items"],
              Step("commit", "")>>
      [] phase = 5 ->
            <<[op |-> "copy", table |-> "warehouse_dim_customers",
               source |-> "production_customers"],
              [op |-> "copy", table |-> "warehouse_dim_products",
               source |-> "production_products"],
              Step("calendar", "warehouse_dim_date"),
              Step("methods", "warehouse_dim_payment_method"),
              [op |-> "copy", table |-> "warehouse_fact_sales",
               source |-> "production_transaction_items"],
              Step("commit", "")>>

\* what run does with the result r of a phase: it goes on to the next phase, or
\* returns after the last phase and after a phase that raised
AfterPhase(r, phase, done) ==
    LET ends == ~r.ok \/ phase = NumPhases
        result == IF r.ok THEN "True" ELSE "False"
    IN  /\ store' = r.store
        /\ err' = r.error
        /\ stages' = Append(done, [stage |-> phase, ok |-> r.ok])
        /\ pc' = IF ends THEN "orchestrated" ELSE "orchestrating"
        /\ returned' = IF ends THEN result ELSE "none"
        /\ runs' = IF ends THEN runs + 1 ELSE runs
        /\ first_run' = IF ends /\ runs = 0 THEN RunRecord(r.store, result)
                        ELSE first_run

\* the next phase of run: the first one when run is entered, the one after the
\* last completed phase otherwise.  The streams of generate_data are seeded when
\* phase 1 imports the module for the first time; a later run of the same process
\* draws on from where the run before it left them.
RunPhase ==
    /\ pc \in {"orchestrator", "orchestrating"} \/ (pc = "orchestrated" /\ runs < MaxRuns)
    /\ LET done == IF pc = "orchestrating" THEN stages ELSE <<>>
           phase == Len(done) + 1
       IN  IF phase = 1
           THEN \E fail \in 0..(Len(CSV_FILES) + 1) :
                \E halves \in IF fail = 1 THEN {halfUp}
                              ELSE GenerationHalves(fake, rnd, store.config, halfUp) :
                    LET r == PhaseOne(store, fake, rnd, halves, fail)
                    IN  /\ AfterPhase(r, phase, done)
                        /\ fake' = r.fake
                        /\ rnd' = r.rnd
                        /\ halfUp' = halves
           ELSE \E fail \in 0..Len(PhaseSteps(phase)) :
                    /\ AfterPhase(RunSteps(PhaseSteps(phase), 1, store, fail), phase, done)
                    /\ UNCHANGED <<fake, rnd, halfUp>>
    /\ UNCHANGED <<frameVars, probe, conn, ingestion_results, quality_report, report_file>>

(***************************************************************************)
(* One of the three programs, on a store with the schema set up and        *)
(* nothing loaded, run up to MaxRuns times.  data/raw holds what main() of *)
(* generate_data.py wrote with the counts of the configuration, with at    *)
(* most one file removed since; the process starts with the streams where  *)
(* the import of generate_data puts them.                                  *)
(***************************************************************************)
Programs == {"ingestion", "pipeline", "orchestrator"}

\* Faker.seed(42), random.seed(42): the seed of generate_data
SEED == 42

InitPipeline ==
    /\ pc \in Programs
    /\ err = "none"
    /\ FramesIdle
    /\ probe = NoProbe
    /\ fake = SeedState(SEED)
    /\ rnd = SeedState(SEED)
    /\ \E config \in Configurations, missing \in {{}} \cup {{f} : f \in FileNames},
          unique \in BOOLEAN :
         \E halves \in GenerationHalves(SeedState(SEED), SeedState(SEED), config,
                                        NoHalves) :
             /\ halfUp = halves
             /\ store = NewStore(config,
                                 Generation(SeedState(SEED), SeedState(SEED), config,
                                            halves),
                                 missing, unique)
    /\ conn = "none"
    /\ stages = <<>>
    /\ returned = "none"
    /\ runs = 0
    /\ first_run = <<>>
    /\ ingestion_results = NewIngestionResults
    /\ quality_report = <<>>
    /\ report_file = <<>>

NextPipeline ==
    \/ IngestAllData
    \/ RunPipeline
    \/ LoadStaging
    \/ TransformToProduction
    \/ LoadWarehouse
    \/ ClosePipeline
    \/ RunPhase

SpecPipeline == InitPipeline /\ [][NextPipeline]_vars

(***************************************************************************)
(* Properties of the generators.                                           *)
(***************************************************************************)
\* the call has returned (a call that raised has returned nothing)
AfterCustomers ==
    pc \in {"customers", "products", "transactions", "items", "tampered", "validated"}
AfterProducts == pc \in {"products", "transactions", "items", "tampered", "validated"}
AfterTransactions ==
    (pc = "transactions" /\ err = "none") \/ pc \in {"items", "tampered", "validated"}
AfterItems == (pc = "items" /\ err = "none") \/ pc \in {"tampered", "validated"}
AfterValidation == pc = "validated" /\ err = "none"

Distinct(df, f) == Cardinality(ColumnSet(df, f)) = Len(df.rows)

\* C1: the customers returned by generate_customers(n) have pairwise distinct
\* emails and pairwise distinct customer ids (as many distinct values as rows).
C1_DistinctEmailsAndIds ==
    AfterCustomers =>
        /\ Distinct(customers_df, "email")
        /\ Distinct(customers_df, "customer_id")

\* two candidates shared an email and at least two customers were returned
C1_Witness ==
    /\ pc = "customers"
    /\ \E i, j \in 1..Len(candidates) : i < j /\ candidates[i].email = candidates[j].email
    /\ Len(customers_df.rows) >= 2

\* C2: every product has price > 0 and cost < price, for every price of the
\* category's range and every margin factor of [0.4, 0.7], both rounded to cents.
C2_CostBelowPrice ==
    pc = "drawn" => probe.price > 0 /\ probe.cost < probe.price

\* the cheapest price of the cheapest category with the largest margin factor, 0.7
C2_Witness ==
    /\ pc = "drawn"
    /\ CATEGORIES[probe.category].category = "Books"
    /\ probe.u = 0
    /\ probe.w = UGrid
    /\ probe.price = 100 * CATEGORIES[probe.category].lo
    /\ 10 * probe.cost = 7 * probe.price

\* lt is x * pct / 100 rounded to the nearest whole number, a half going the way `up` says
NearestPercent(lt, x, pct, up) ==
    LET whole == (x \div 100) * pct
        part == (x % 100) * pct
        diff == 100 * (lt - whole) - part
    IN  /\ diff >= 0 - 50
        /\ diff <= 50
        /\ diff = 50 => up
        /\ diff = 0 - 50 => ~up

ProductWithPrice(pid, price) ==
    \E i \in 1..Len(products_df.rows) :
        products_df.rows[i].product_id = pid /\ products_df.rows[i].price = price

\* C3: every generated item has quantity in 1..5, discount_percentage in
\* {0,5,10,15,20}, unit_price equal to the price of the product it references, and
\* line_total = round(quantity * unit_price * (1 - discount_percentage/100), 2).
C3_ItemFields ==
    (AfterItems /\ tampered = 0) =>
        \A i \in 1..Len(items_df.rows) :
            LET row == items_df.rows[i]
            IN  /\ row.quantity \in 1..5
                /\ row.discount_percentage \in {0, 5, 10, 15, 20}
                /\ ProductWithPrice(row.product_id, row.unit_price)
                /\ NearestPercent(row.line_total, row.quantity * row.unit_price,
                                  100 - row.discount_percentage,
                                  HalfUp(halfUp, LineTotalKey(row.quantity, row.unit_price,
                                                              row.discount_percentage)))

\* an item with several units and a discount whose line total had to be rounded
C3_Witness ==
    /\ AfterItems
    /\ tampered = 0
    /\ \E i \in 1..Len(items_df.rows) :
         LET row == items_df.rows[i]
         IN  /\ row.quantity > 1
             /\ row.discount_percentage > 0
             /\ (((row.quantity * row.unit_price) % 100)
                    * (100 - row.discount_percentage)) % 100 # 0

\* C4: every transaction's customer_id is the id of a generated customer; every
\* item's transaction_id is the id of a generated transaction and its product_id
\* the id of a generated product.
C4_ReferencesClosed ==
    /\ AfterTransactions =>
           \A i \in 1..Len(transactions_df.rows) :
               transactions_df.rows[i].customer_id \in ColumnSet(customers_df, "customer_id")
    /\ AfterItems =>
           \A i \in 1..Len(items_df.rows) :
               /\ items_df.rows[i].transaction_id \in ColumnSet(transactions_df, "transaction_id")
               /\ items_df.rows[i].product_id \in ColumnSet(products_df, "product_id")

\* items were generated after the de-duplication had left a gap in the customer ids
C4_Witness ==
    /\ AfterItems
    /\ \E k \in 1..Len(candidates) :
         /\ CustomerId(k - 1) \notin ColumnSet(customers_df, "customer_id")
         /\ CustomerId(k) \in ColumnSet(customers_df, "customer_id")
    /\ Len(transactions_df.rows) >= 2
    /\ Len(items_df.rows) >= 2

\* C5: on the four collections of one unmodified run the validator returns
\* orphan_records = 0, constraint_violations = 0 and quality_score = 100.
C5_CleanRunValidates ==
    (AfterValidation /\ tampered = 0) =>
        /\ validation_result.orphan_records = 0
        /\ validation_result.constraint_violations = 0
        /\ validation_result.quality_score.num = 100 * validation_result.quality_score.den

\* a validated run of three items or more in which the line totals met a decimal half
\* that went up and one that went down
C5_Witness ==
    /\ AfterValidation
    /\ tampered = 0
    /\ Len(items_df.rows) >= 3
    /\ \E k1, k2 \in DOMAIN halfUp :
         /\ k1[1] = "line_total" /\ halfUp[k1]
         /\ k2[1] = "line_total" /\ ~halfUp[k2]
    /\ \E i \in 1..Len(items_df.rows) :
         LET row == items_df.rows[i]
         IN  (((row.quantity * row.unit_price) % 100)
                 * (100 - row.discount_percentage)) % 100 # 0

\* C6: a generator called with count 0 returns an empty collection that still
\* carries the entity's column set, and raises nothing.
C6_ZeroCountKeepsColumns ==
    /\ (pc = "customers" /\ num_customers = 0) =>
           customers_df.rows = <<>> /\ customers_df.columns = CustomerColumns
    /\ (pc = "products" /\ num_products = 0) =>
           products_df.rows = <<>> /\ products_df.columns = ProductColumns
    /\ (pc = "transactions" /\ num_transactions = 0) =>
           /\ err = "none"
           /\ transactions_df.rows = <<>>
           /\ transactions_df.columns = TransactionColumns

\* C7: generate_customers(n) returns exactly n customer records for every n >= 0.
C7_ExactlyNCustomers ==
    (AfterCustomers /\ num_customers >= 0) => Len(customers_df.rows) = num_customers

\* the candidates that have no earlier candidate with the same email
FirstOccurrences == {i \in 1..Len(candidates) :
                        \A j \in 1..(i - 1) : candidates[j].email # candidates[i].email}

\* C8: generate_customers(n) builds n candidates and removes every candidate whose
\* email equals that of an earlier one: at most n rows, the survivors in their
\* order and with their customer_id, exactly n rows when no two share an email.
C8_FirstOccurrenceKept ==
    AfterCustomers =>
        LET rows == customers_df.rows
        IN  /\ Len(candidates) = Max0(num_customers)
            /\ Len(rows) <= Max0(num_customers)
            /\ Len(rows) = Cardinality(FirstOccurrences)
            /\ \A k \in 1..Len(rows) :
                 \E i \in FirstOccurrences :
                     /\ Cardinality({j \in FirstOccurrences : j <= i}) = k
                     /\ rows[k] = candidates[i]
                     /\ rows[k].customer_id = CustomerId(i - 1)
            /\ (\A i, j \in 1..Len(candidates) :
                    i # j => candidates[i].email # candidates[j].email)
                   => Len(rows) = num_customers \/ num_customers < 0

\* a duplicate that is neither first nor last was removed: the survivors are the
\* first and the last candidate
C8_Witness ==
    /\ pc = "customers"
    /\ num_customers = 3
    /\ candidates[1].email = candidates[2].email
    /\ candidates[3].email # candidates[1].email
    /\ Len(customers_df.rows) = 2

CategoryCount(c) ==
    Cardinality({i \in 1..Len(products_df.rows) :
                    products_df.rows[i].category = CATEGORIES[c].category})

\* C9: generate_products(n) produces n // 6 products for each of the 6 categories,
\* 6 * (n // 6) in all: the n mod 6 remainder is dropped, no category padded.
C9_FloorPerCategory ==
    (AfterProducts /\ num_products >= 0) =>
        /\ Len(CATEGORIES) = 6
        /\ \A c \in 1..6 :
             /\ 6 * CategoryCount(c) <= num_products
             /\ num_products < 6 * CategoryCount(c) + 6
        /\ \E k \in 0..num_products :
             /\ Len(products_df.rows) = 6 * k
             /\ num_products - Len(products_df.rows) \in 0..5

\* 13 products asked for: two per category, the thirteenth dropped
C9_Witness ==
    /\ pc = "products"
    /\ num_products = 13
    /\ Len(products_df.rows) = 12
    /\ \A c \in 1..6 : CategoryCount(c) = 2

\* C10: generate_products(n) returns exactly n product records.
C10_ExactlyNProducts ==
    (AfterProducts /\ num_products >= 0) => Len(products_df.rows) = num_products

\* C11: every identifier has the fixed width of its entity type at every sequence
\* index: 8 characters for customers, products and transactions, 9 for items.
C11_FixedWidthIds ==
    pc = "formatted" =>
        Len(probe.id) = IF probe.entity = "Item" THEN 9 ELSE 8

\* the rows of a frame at different positions differ in the field f
PairwiseDistinct(df, f) ==
    \A i, j \in 1..Len(df.rows) : i # j => df.rows[i][f] # df.rows[j][f]

ItemsOf(transaction_id) ==
    {i \in 1..Len(items_df.rows) : items_df.rows[i].transaction_id = transaction_id}

\* C12: within one run two different positions never get the same id: product ids
\* (one counter across the categories), transaction ids and item ids (one counter
\* across the transactions) are each pairwise distinct.
C12_IdsInjective ==
    /\ AfterProducts => PairwiseDistinct(products_df, "product_id")
    /\ AfterTransactions => PairwiseDistinct(transactions_df, "transaction_id")
    /\ AfterItems => PairwiseDistinct(items_df, "item_id")

\* products of every category, and two transactions with several items each
C12_Witness ==
    /\ AfterItems
    /\ \A c \in 1..Len(CATEGORIES) : CategoryCount(c) >= 2
    /\ Len(transactions_df.rows) >= 2
    /\ \A t \in 1..Len(transactions_df.rows) :
         Cardinality(ItemsOf(transactions_df.rows[t].transaction_id)) >= 2

\* C13: every transaction given to generate_transaction_items gets between 1 and 5
\* items, so n transactions get between n and 5n items in all.
C13_OneToFiveItems ==
    AfterItems =>
        /\ \A t \in 1..Len(transactions_df.rows) :
             Cardinality(ItemsOf(transactions_df.rows[t].transaction_id)) \in 1..5
        /\ Len(items_df.rows) >= Len(transactions_df.rows)
        /\ Len(items_df.rows) <= 5 * Len(transactions_df.rows)

\* one transaction got a single item and another one got five
C13_Witness ==
    /\ AfterItems
    /\ \E t, u \in 1..Len(transactions_df.rows) :
         /\ Cardinality(ItemsOf(transactions_df.rows[t].transaction_id)) = 1
         /\ Cardinality(ItemsOf(transactions_df.rows[u].transaction_id)) = 5

\* C14: for n > 0 transactions generate_transaction_items returns strictly more
\* than n items.
C14_MoreItemsThanTransactions ==
    (AfterItems /\ Len(transactions_df.rows) > 0) =>
        Len(items_df.rows) > Len(transactions_df.rows)

\* C14, as the code has it: for n > 0 transactions at least n items are returned,
\* and strictly more than n exactly when some transaction drew two or more items.
C14_AtLeastAsManyItems ==
    (AfterItems /\ Len(transactions_df.rows) > 0) =>
        /\ Len(items_df.rows) >= Len(transactions_df.rows)
        /\ Len(items_df.rows) > Len(transactions_df.rows)
             <=> \E t \in 1..Len(transactions_df.rows) :
                     Cardinality(ItemsOf(transactions_df.rows[t].transaction_id)) >= 2

\* two transactions that drew one item each: as many items as transactions
C14_Witness ==
    /\ AfterItems
    /\ Len(transactions_df.rows) = 2
    /\ Len(items_df.rows) = 2
    /\ items_df.rows[1].transaction_id # items_df.rows[2].transaction_id

\* the sum of line_total over the items at the positions of S
RECURSIVE LineTotalsAt(_)
LineTotalsAt(S) ==
    IF S = {} THEN 0
    ELSE LET i == CHOOSE x \in S : TRUE
         IN  items_df.rows[i].line_total + LineTotalsAt(S \ {i})

TotalsAllZero ==
    \A t \in 1..Len(transactions_df.rows) : transactions_df.rows[t].total_amount = 0

TotalsAreItemSums ==
    \A t \in 1..Len(transactions_df.rows) :
        transactions_df.rows[t].total_amount =
            LineTotalsAt(ItemsOf(transactions_df.rows[t].transaction_id))

\* the step in which generate_transaction_items returns leaves the columns, the
\* number of rows and every field of every transaction but total_amount as they
\* were
BackFillKeepsFields ==
    (pc = "transactions" /\ pc' = "items" /\ err' = "none") =>
        /\ transactions_df'.columns = transactions_df.columns
        /\ Len(transactions_df'.rows) = Len(transactions_df.rows)
        /\ \A t \in 1..Len(transactions_df.rows) :
             /\ DOMAIN transactions_df'.rows[t] = DOMAIN transactions_df.rows[t]
             /\ \A c \in DOMAIN transactions_df.rows[t] \ {"total_amount"} :
                  transactions_df'.rows[t][c] = transactions_df.rows[t][c]

\* C15: totals are two-phase: after generate_transactions every total_amount is 0;
\* after generate_transaction_items every transaction's total_amount is the sum of
\* line_total over exactly the items with its transaction_id; the back-fill changes
\* no other transaction field.
C15_TwoPhaseTotals ==
    /\ []((pc = "transactions" /\ err = "none") => TotalsAllZero)
    /\ [](AfterItems => TotalsAreItemSums)
    /\ [][BackFillKeepsFields]_vars

\* two transactions with all their columns were back-filled with different totals,
\* one of them the sum of several line totals
C15_Witness ==
    /\ AfterItems
    /\ Len(transactions_df.rows) = 2
    /\ \A t \in 1..2 :
         {"customer_id", "payment_method", "others"} \subseteq DOMAIN transactions_df.rows[t]
    /\ transactions_df.rows[1].total_amount # transactions_df.rows[2].total_amount
    /\ \E t \in 1..2 :
         /\ Cardinality(ItemsOf(transactions_df.rows[t].transaction_id)) >= 2
         /\ transactions_df.rows[t].total_amount > 0
         /\ \A i \in ItemsOf(transactions_df.rows[t].transaction_id) :
              items_df.rows[i].line_total < transactions_df.rows[t].total_amount

(***************************************************************************)
(* Properties of the validator.  The five checks, read off the collections *)
(* the validator was given.                                                *)
(***************************************************************************)
DanglingCustomerRefs ==
    {t \in 1..Len(transactions_df.rows) :
        \A c \in 1..Len(customers_df.rows) :
            customers_df.rows[c].customer_id # transactions_df.rows[t].customer_id}

DanglingTransactionRefs ==
    {i \in 1..Len(items_df.rows) :
        \A t \in 1..Len(transactions_df.rows) :
            transactions_df.rows[t].transaction_id # items_df.rows[i].transaction_id}

DanglingProductRefs ==
    {i \in 1..Len(items_df.rows) :
        \A p \in 1..Len(products_df.rows) :
            products_df.rows[p].product_id # items_df.rows[i].product_id}

WrongLineTotals ==
    {i \in 1..Len(items_df.rows) :
        ~NearestPercent(items_df.rows[i].line_total,
                        items_df.rows[i].quantity * items_df.rows[i].unit_price,
                        100 - items_df.rows[i].discount_percentage,
                        HalfUp(halfUp, LineTotalKey(items_df.rows[i].quantity,
                                                    items_df.rows[i].unit_price,
                                                    items_df.rows[i].discount_percentage)))}

UnpricedProducts ==
    {p \in 1..Len(products_df.rows) : ~(products_df.rows[p].price > 0)}

NothingToReport ==
    /\ DanglingCustomerRefs = {}
    /\ DanglingTransactionRefs = {}
    /\ DanglingProductRefs = {}
    /\ WrongLineTotals = {}
    /\ UnpricedProducts = {}

\* C16: for any four collections the validator returns quality_score = 100 exactly
\* when the customer-reference, transaction-reference, product-reference, line_total
\* and price checks all find nothing; with at least one violation the score is
\* below 100.
C16_PerfectIffNothingFound ==
    AfterValidation =>
        LET score == validation_result.quality_score
        IN  /\ score.num = 100 * score.den <=> NothingToReport
            /\ ~NothingToReport => score.num < 100 * score.den

\* the only finding is a product priced 0, and the score lies between 0 and 100
C16_Witness ==
    /\ AfterValidation
    /\ Cardinality(UnpricedProducts) = 1
    /\ DanglingCustomerRefs = {} /\ DanglingTransactionRefs = {}
    /\ DanglingProductRefs = {} /\ WrongLineTotals = {}
    /\ Len(transactions_df.rows) >= 1 /\ Len(items_df.rows) >= 1
    /\ validation_result.quality_score.num > 0
    /\ validation_result.quality_score.num < 100 * validation_result.quality_score.den

\* total violations of a report
Violations(counts) == counts.orphan_records + counts.constraint_violations

\* the fraction a is smaller than the fraction b (positive denominators)
ScoreBelow(a, b) == a.num * b.den < b.num * a.den

ScoreInRange(a) == a.num >= 0 /\ a.num <= 100 * a.den

\* C17: for a fixed total record count the quality_score strictly decreases
\* whenever the total violation count increases, and is never below 0 nor above 100.
C17_StrictlyDecreasing ==
    pc = "scored" =>
        /\ ScoreInRange(probe.score_fewer)
        /\ ScoreInRange(probe.score_more)
        /\ Violations(probe.fewer) < Violations(probe.more)
             => ScoreBelow(probe.score_more, probe.score_fewer)

\* C17, as the code has it: the score is never below 0 nor above 100; when the
\* violation count increases from a count below the total record count the score
\* strictly decreases, and from a count that has reached the total record count
\* on, the score is 0 and stays 0.
C17_DecreasingDownToZero ==
    pc = "scored" =>
        /\ ScoreInRange(probe.score_fewer)
        /\ ScoreInRange(probe.score_more)
        /\ Violations(probe.fewer) < Violations(probe.more) =>
             IF Violations(probe.fewer) < probe.total_records
             THEN ScoreBelow(probe.score_more, probe.score_fewer)
             ELSE probe.score_fewer.num = 0 /\ probe.score_more.num = 0

\* one report below the record count and one above it: a positive score and a
\* score cut off at 0
C17_Witness ==
    /\ pc = "scored"
    /\ Violations(probe.fewer) > 0
    /\ Violations(probe.fewer) < probe.total_records
    /\ Violations(probe.more) > probe.total_records
    /\ probe.score_fewer.num > 0
    /\ probe.score_more.num = 0

\* C18: from a generated dataset without violations, changing the
\* discount_percentage of exactly one item to a different value (999, say) and
\* nothing else makes the validator return constraint_violations = 1 and
\* orphan_records = 0.
C18_OneChangedDiscountOneViolation ==
    (AfterValidation /\ tampered # 0) =>
        /\ validation_result.constraint_violations = 1
        /\ validation_result.orphan_records = 0

\* a validated run of several items in which the second item's discount was set to 999
C18_Witness ==
    /\ AfterValidation
    /\ tampered = 2
    /\ Len(items_df.rows) >= 3
    /\ items_df.rows[2].discount_percentage = 999
    /\ validation_result.constraint_violations = 1

\* C19: validation never raises: for any four collections, empty ones included,
\* the validator returns a report with orphan_records, constraint_violations,
\* quality_score and details.
C19_ValidationNeverRaises ==
    pc = "validated" =>
        /\ err = "none"
        /\ DOMAIN validation_result =
               {"orphan_records", "constraint_violations", "quality_score", "details"}

\* C20: a generator called with a negative count fails with an error instead of
\* returning a collection.
C20_NegativeCountRaises ==
    /\ (pc = "customers" /\ num_customers < 0) => err # "none"
    /\ (pc = "products" /\ num_products < 0) => err # "none"
    /\ (pc = "transactions" /\ num_transactions < 0) => err # "none"


(***************************************************************************)
(* Properties of the quality checker.                                      *)
(***************************************************************************)
\* the grade the bands of the score give: A from 95, B from 85, C from 75, D from 60
GradeOfReported(hundredths) ==
    IF hundredths >= 9500 THEN "A"
    ELSE IF hundredths >= 8500 THEN "B"
    ELSE IF hundredths >= 7500 THEN "C"
    ELSE IF hundredths >= 6000 THEN "D"
    ELSE "F"

\* C21: in every result of calculate_quality_score the grade is the one the bands
\* give for the returned overall_quality_score (A from 95, B in [85, 95), C in
\* [75, 85), D in [60, 75), F below 60).
C21_GradeMatchesReportedScore ==
    pc = "graded" /\ err = "none" =>
        probe.result.quality_grade = GradeOfReported(probe.result.overall_quality_score)


\* C26: the overall_quality_score calculate_quality_score returns is 100 exactly
\* when the five checks report no issue in total; with any positive number of
\* issues the returned score is strictly below 100.
C26_HundredIffNoIssues ==
    pc = "graded" /\ err = "none" =>
        (probe.result.overall_quality_score = Hundred
            <=> TotalIssues(probe.all_checks) = 0)


ShowsPerfect(report) ==
    report.overall_quality_score = Hundred /\ report.quality_grade = "A"

AllFivePassed(report) ==
    /\ DOMAIN report.checks_performed = CheckNames
    /\ \A n \in CheckNames : report.checks_performed[n].status = "passed"

\* C29: in every state of a DataQualityChecker, and in every report that
\* save_quality_report writes, a report showing overall_quality_score 100 and
\* quality_grade 'A' holds under checks_performed the results of all five checks,
\* each with status 'passed'.
C29_PerfectReportHasFivePassedChecks ==
    /\ ShowsPerfect(quality_report) => AllFivePassed(quality_report)
    /\ \A k \in 1..Len(report_file) :
          ShowsPerfect(report_file[k]) => AllFivePassed(report_file[k])

\* C25: validate_referential_integrity runs its five checks whatever the earlier
\* ones found and adds up: orphan_records is the number of transactions with an
\* unknown customer plus the items with an unknown transaction plus the items
\* with an unknown product; constraint_violations is the number of items with a
\* wrong line_total plus the products priced 0 or less.  A record failing several
\* checks counts once per check.
C25_CountsAccumulatePerCheck ==
    AfterValidation =>
        /\ validation_result.orphan_records =
               Cardinality(DanglingCustomerRefs) + Cardinality(DanglingTransactionRefs)
               + Cardinality(DanglingProductRefs)
        /\ validation_result.constraint_violations =
               Cardinality(WrongLineTotals) + Cardinality(UnpricedProducts)

\* one item fails three checks (unknown transaction, unknown product, wrong
\* line_total) and is counted three times, next to a failing transaction and product
C25_Witness ==
    /\ AfterValidation
    /\ \E i \in 1..Len(items_df.rows) :
          i \in DanglingTransactionRefs \cap DanglingProductRefs \cap WrongLineTotals
    /\ DanglingCustomerRefs # {}
    /\ UnpricedProducts # {}
    /\ validation_result.orphan_records = 3
    /\ validation_result.constraint_violations = 2


(***************************************************************************)
(* Properties of the store-side programs.                                  *)
(***************************************************************************)
\* the current run has loaded the four staging tables without a failure
StagingLoaded ==
    \/ /\ pc = "ingested"
       /\ ingestion_results.status = "success"
       /\ DOMAIN ingestion_results.tables_loaded = StagingTables
       /\ \A t \in StagingTables : ingestion_results.tables_loaded[t].status = "success"
    \/ /\ pc \in {"staged", "transformed", "loaded", "failed", "finished"}
       /\ \E k \in 1..Len(stages) : stages[k] = [stage |-> "load_staging", ok |-> TRUE]
    \/ /\ pc \in {"orchestrating", "orchestrated"}
       /\ \E k \in 1..Len(stages) : stages[k] = [stage |-> 2, ok |-> TRUE]

StagingHoldsFiles(d) ==
    \A t \in StagingTables : d[t] = store.files[FileOf(t)].rows

\* C22: the staging load is idempotent.  Whatever the staging tables held before
\* (nothing, or the rows of an earlier load of the same files), after a staging
\* load that went through each staging table holds the rows of its file once: a
\* second load leaves the same rows, and the same row count, as the first.
C22_StagingLoadIdempotent ==
    StagingLoaded => StagingHoldsFiles(store.db)

\* a second load over the rows the first load left, with the same rows after it
C22_Witness ==
    /\ StagingLoaded
    /\ runs = 2
    /\ pc \in {"ingested", "finished", "orchestrated"}
    /\ StagingHoldsFiles(first_run.db)
    /\ StagingHoldsFiles(store.db)
    /\ \A t \in StagingTables : Len(store.db[t]) > 0
    /\ Len(store.db["staging_transactions"]) = MaxFileRows
    /\ Len(store.db["staging_transaction_items"]) > MaxFileRows


\* C23: in ingest_all_data a table whose load fails (a load error or a missing
\* file) gets a failed result of its own and the tables after it are still
\* attempted; the overall status is 'failed' whenever some table's result is
\* failed, and 'success' only when every table loaded.
C23_FailedTableFailsIngestion ==
    pc = "ingested" =>
        LET loaded == ingestion_results.tables_loaded
        IN  /\ (\E t \in DOMAIN loaded : loaded[t].status = "failed")
                => ingestion_results.status = "failed"
            /\ ingestion_results.status = "success"
                => /\ DOMAIN loaded = StagingTables
                   /\ \A t \in StagingTables : loaded[t].status = "success"


\* a step in which a stage of run_pipeline returned False
StageFailed == pc \in {"connected", "staged", "transformed"} /\ pc' = "failed"

\* C24: when a stage of CompleteETLPipeline fails part-way, every write of that
\* stage is rolled back, so the store holds what it held when the stage began
\* (the writes committed by earlier stages are kept); the stage is not retried
\* and the failure is reported as False.
C24_FailedStageLeavesStoreUnchanged ==
    /\ [][StageFailed => store'.db = store.db /\ store'.work = store.db]_vars
    /\ [](pc = "failed" => ~stages[Len(stages)].ok)
    /\ [](pc = "finished" /\ (\E k \in 1..Len(stages) : ~stages[k].ok)
            => returned = "False" /\ ~stages[Len(stages)].ok
               /\ \A k \in 1..(Len(stages) - 1) : stages[k].ok)


\* a run of the ETL pipeline: from its construction to its return
InPipelineRun ==
    pc \in {"pipeline", "connected", "staged", "transformed", "loaded", "failed", "finished"}

\* the stages called so far are the first ones of the fixed order, and all but the
\* last one called returned True
StagesInOrder ==
    /\ Len(stages) <= Len(STAGES)
    /\ \A k \in 1..Len(stages) : stages[k].stage = STAGES[k]
    /\ \A k \in 1..(Len(stages) - 1) : stages[k].ok

AllStagesSucceeded ==
    Len(stages) = Len(STAGES) /\ \A k \in 1..Len(stages) : stages[k].ok

\* C27: run_pipeline calls load_staging, transform_to_production and
\* load_warehouse in that order, starts a stage only when every earlier stage
\* returned success, returns True exactly when all three succeeded, and once
\* connected it closes cursor and connection in every outcome.
C27_StagesInOrderAndClosed ==
    InPipelineRun =>
        /\ StagesInOrder
        /\ returned = "True" <=> (pc = "finished" /\ AllStagesSucceeded)
        /\ returned # "none" <=> pc = "finished"
        /\ pc = "finished" => conn = IF stages = <<>> /\ err # "none" THEN "none" ELSE "closed"
        /\ conn = "open" <=> pc \in {"connected", "staged", "transformed", "loaded", "failed"}

\* after a run that returned False, a run that connected, went through its three
\* stages, returned True and closed the connection
C27_Witness ==
    /\ pc = "finished"
    /\ conn = "closed"
    /\ runs = 2
    /\ first_run.returned = "False"
    /\ returned = "True"
    /\ AllStagesSucceeded
    /\ CountRows(store.db, "warehouse_fact_sales") > 0


\* the exceptions of the environment: the database or the file system failing
StoreFailures == {"OperationalError", "FileNotFoundError", "OSError"}

\* C28: with a valid configuration and the store and the files available (no
\* database or file failure), PipelineOrchestrator.run executes the phases 1 to 5
\* in order and returns True; it returns False only when some phase raised, and
\* no phase starts after a phase that raised.
C28_OrchestratorRunsFivePhases ==
    pc = "orchestrated" =>
        /\ \A k \in 1..Len(stages) : stages[k].stage = k
        /\ \A k \in 1..(Len(stages) - 1) : stages[k].ok
        /\ returned = "False" <=> ~stages[Len(stages)].ok
        /\ err \notin StoreFailures =>
              /\ returned = "True"
              /\ Len(stages) = NumPhases


\* the tables C30 compares between the first and the second run
ComparedTables ==
    ProductionTables
    \cup {"warehouse_dim_customers", "warehouse_dim_products", "warehouse_fact_sales"}

\* C30: a second run_pipeline over the same source files also succeeds, and leaves
\* the production tables and warehouse_dim_customers, warehouse_dim_products and
\* warehouse_fact_sales with the row counts the first run left.
C30_SecondRunSameRowCounts ==
    (/\ pc = "finished"
     /\ runs = 2
     /\ first_run.returned = "True"
     /\ err \notin StoreFailures)
    => /\ returned = "True"
       /\ \A t \in ComparedTables : CountRows(store.db, t) = CountRows(first_run.db, t)

====
